---- MODULE Spec2Model ----
(***************************************************************************)
(* Order execution and risk management engine of the kalshi spread bot:    *)
(* RateLimiter (TokenBucket), OrderManager, PositionTracker, RiskManager   *)
(* and ExecutionEngine, with the mock trading API they run against.        *)
(***************************************************************************)
EXTENDS Integers, Sequences, FiniteSets, TLC

VARIABLES
    rest,     \* MockRestClient: orders, positions, balance
    ws,       \* notifications emitted by the exchange and not yet delivered
    om,       \* OrderManager: orders, fill_events, order_callbacks
    pt,       \* PositionTracker: positions, daily_pnl, daily_pnl_reset
    rm,       \* RiskManager: initial_balance, trading_halted, halt_reason
    trades,   \* one record per execute_spread_trade call in progress
    cop,      \* a direct can_open_position call suspended at its await
    sweep,    \* a cancel_all_orders call in progress
    bucket,   \* TokenBucket: tokens, last_refill, lock
    callers,  \* TokenBucket.acquire callers
    clock,    \* time.monotonic() ticks and the UTC day
    hist      \* recorded for the properties: the daily-loss latch, the callbacks the
              \* last notification invoked, what the last direct call returned

vars == <<rest, ws, om, pt, rm, trades, cop, sweep, bucket, callers, clock, hist>>

----------------------------------------------------------------------------
(* Bounds of the model *)

MaxQty == 2          \* largest quantity change of a direct update_position call
MaxPnl == 5          \* largest |realized_pnl| a position is driven to
MaxDay == 1          \* number of UTC midnights that pass
MaxRiskQty == 1      \* largest position held while the risk manager is exercised
MaxExposure == 1     \* largest |market_exposure| the API reports

Tickers == {"T1", "T2"}
TrackerTickers == {"T1"}   \* the ticker the tracker is driven on directly
Sides == {"yes", "no"}
Prices == {45, 50}

Abs(x) == IF x < 0 THEN -x ELSE x
Min(a, b) == IF a < b THEN a ELSE b
Max(a, b) == IF a > b THEN a ELSE b

(* StrategyParams; fractions are num/den pairs *)
params ==
    [ max_position_size        |-> 2,
      max_concurrent_positions |-> 1,
      risk_per_trade_num       |-> 1,
      risk_per_trade_den       |-> 2,
      daily_loss_limit_num     |-> 1,
      daily_loss_limit_den     |-> 20,
      order_timeout_seconds    |-> 1 ]

(* SpreadOpportunity values offered to the engine and the risk manager *)
Opportunity(t, s, b, a) ==
    [ticker |-> t, side |-> s, bid_price |-> b, ask_price |-> a, spread_cents |-> a - b]

----------------------------------------------------------------------------
(* TrackedPosition *)

\* TrackedPosition._calculate_pnl
calculate_pnl(p) ==
    IF p.current_price > 0
    THEN [p EXCEPT !.unrealized_pnl =
            IF p.side = "yes"
            THEN (p.current_price - p.avg_entry_price) * p.quantity
            ELSE (p.avg_entry_price - p.current_price) * p.quantity]
    ELSE p

\* TrackedPosition(...) constructor followed by __post_init__
TrackedPosition(side, qty, avg, cur) ==
    calculate_pnl([side |-> side, quantity |-> qty, avg_entry_price |-> avg,
                   current_price |-> cur, unrealized_pnl |-> 0,
                   realized_pnl |-> 0, status |-> "open"])

\* TrackedPosition.update_price
update_price(p, new_price) == calculate_pnl([p EXCEPT !.current_price = new_price])

\* add_to_position averaging over the added contracts only
add_to_position_plain_average(p, qty, price) ==
    LET q2 == p.quantity + qty
    IN  calculate_pnl([p EXCEPT !.quantity = q2,
                                !.avg_entry_price =
                                    IF q2 > 0 THEN (p.avg_entry_price + price) \div 2 ELSE 0])

\* TrackedPosition.add_to_position
add_to_position(p, qty, price) ==
    LET total_cost == (p.avg_entry_price * p.quantity) + (price * qty)
        q2 == p.quantity + qty
    IN  calculate_pnl([p EXCEPT !.quantity = q2,
                                !.avg_entry_price = IF q2 > 0 THEN total_cost \div q2 ELSE 0])

\* the realized PnL TrackedPosition.reduce_position returns
reduce_pnl(p, qty0, price) ==
    LET qty == Min(qty0, p.quantity)
    IN  IF qty = 0 THEN 0
        ELSE IF p.side = "yes" THEN (price - p.avg_entry_price) * qty
             ELSE (p.avg_entry_price - price) * qty

\* TrackedPosition.reduce_position (the position after the call)
reduce_position(p, qty0, price) ==
    LET qty == Min(qty0, p.quantity)
        q2 == p.quantity - qty
    IN  IF qty = 0 THEN p
        ELSE calculate_pnl([p EXCEPT !.realized_pnl = @ + reduce_pnl(p, qty0, price),
                                     !.quantity = q2,
                                     !.status = IF q2 = 0 THEN "closed" ELSE @])

----------------------------------------------------------------------------
(* PositionTracker *)

\* _update_daily_pnl carrying the accumulator over the day boundary
update_daily_pnl_carried_over(t, pnl, day) ==
    [t EXCEPT !.daily_pnl = @ + pnl, !.daily_pnl_reset = Max(@, day)]

\* PositionTracker._update_daily_pnl
update_daily_pnl(t, pnl, day) ==
    IF day > t.daily_pnl_reset
    THEN [t EXCEPT !.daily_pnl = pnl, !.daily_pnl_reset = day]
    ELSE [t EXCEPT !.daily_pnl = @ + pnl]

\* PositionTracker.get_daily_pnl: the tracker after the lazy reset
daily_reset(t, day) ==
    IF day > t.daily_pnl_reset
    THEN [t EXCEPT !.daily_pnl = 0, !.daily_pnl_reset = day]
    ELSE t

\* PositionTracker.update_position
update_position(t, ticker, side, qty_change, price, day) ==
    IF ticker \notin DOMAIN t.positions
    THEN IF qty_change <= 0 THEN t
         ELSE [t EXCEPT !.positions =
                 (ticker :> TrackedPosition(side, qty_change, price, price)) @@ @]
    ELSE LET tracked == t.positions[ticker] IN
         IF qty_change > 0
         THEN IF tracked.side # side
              THEN update_daily_pnl(
                     [t EXCEPT !.positions[ticker] = reduce_position(tracked, qty_change, price)],
                     reduce_pnl(tracked, qty_change, price), day)
              ELSE [t EXCEPT !.positions[ticker] = add_to_position(tracked, qty_change, price)]
         ELSE LET reduced == reduce_position(tracked, Abs(qty_change), price)
              IN  update_daily_pnl(
                     [t EXCEPT !.positions[ticker] =
                         IF reduced.quantity = 0 THEN [reduced EXCEPT !.status = "closed"]
                         ELSE reduced],
                     reduce_pnl(tracked, Abs(qty_change), price), day)

\* sync_positions taking the default entry price for tracked tickers as well
sync_entry_default_average(ps, k, exposure) ==
    IF exposure = 0
    THEN [ps[k] EXCEPT !.status = "closed"]
    ELSE IF k \in DOMAIN ps
         THEN [ps[k] EXCEPT !.side = IF exposure > 0 THEN "yes" ELSE "no",
                            !.quantity = Abs(exposure),
                            !.avg_entry_price = 50]
         ELSE TrackedPosition(IF exposure > 0 THEN "yes" ELSE "no", Abs(exposure), 50, 50)

\* one iteration of the first loop of sync_positions: the tracked position of
\* ticker k after the API entry with this market_exposure was processed
sync_entry(ps, k, exposure) ==
    IF exposure = 0
    THEN [ps[k] EXCEPT !.status = "closed"]
    ELSE IF k \in DOMAIN ps
         THEN [ps[k] EXCEPT !.side = IF exposure > 0 THEN "yes" ELSE "no",
                            !.quantity = Abs(exposure)]
         ELSE TrackedPosition(IF exposure > 0 THEN "yes" ELSE "no", Abs(exposure), 50, 50)

\* PositionTracker.sync_positions, given the list get_positions returned
\* (a function from the listed tickers to their market_exposure)
sync_positions(t, api_positions) ==
    LET adopted == {k \in DOMAIN api_positions : api_positions[k] # 0}
    IN  [t EXCEPT !.positions =
            [k \in DOMAIN t.positions \cup adopted |->
                IF k \in DOMAIN api_positions
                THEN sync_entry(t.positions, k, api_positions[k])
                ELSE [t.positions[k] EXCEPT !.status = "closed"]]]

\* PositionTracker.get_open_positions / get_position_count
get_position_count(t) ==
    Cardinality({k \in DOMAIN t.positions : t.positions[k].status # "closed"})

----------------------------------------------------------------------------
(* RiskManager *)

\* str.startswith on reason texts, which are sequences of phrases
startswith(r, prefix) ==
    Len(r) >= Len(prefix) /\ SubSeq(r, 1, Len(prefix)) = prefix

DailyLossReason == <<"Daily loss", "limit exceeded">>
HaltReasons == { <<"Testing halt">>, <<"Daily loss", "review">> }

\* int(initial_balance * daily_loss_limit_pct)
daily_loss_limit(r) ==
    (r.initial_balance * params.daily_loss_limit_num) \div params.daily_loss_limit_den

\* can_open_position testing the size limit before the halt flag
can_open_checks_size_first(r, t, opportunity, size) ==
    IF size > params.max_position_size
    THEN <<"Size exceeds max position size">>
    ELSE IF r.trading_halted THEN <<"Trading halted: ">> \o r.halt_reason
    ELSE IF get_position_count(t) >= params.max_concurrent_positions
         THEN <<"Max concurrent positions reached">>
    ELSE IF opportunity.ticker \in DOMAIN t.positions
            /\ t.positions[opportunity.ticker].quantity > 0
         THEN <<"Already have position in ", opportunity.ticker>>
    ELSE <<>>

\* RiskManager.can_open_position up to its await of get_balance:
\* the reason of the first failing check, or <<>> when all pass
can_open_checks_before_await(r, t, opportunity, size) ==
    IF r.trading_halted THEN <<"Trading halted: ">> \o r.halt_reason
    ELSE IF get_position_count(t) >= params.max_concurrent_positions
         THEN <<"Max concurrent positions reached">>
    ELSE IF opportunity.ticker \in DOMAIN t.positions
            /\ t.positions[opportunity.ticker].quantity > 0
         THEN <<"Already have position in ", opportunity.ticker>>
    ELSE IF size > params.max_position_size
         THEN <<"Size exceeds max position size">>
    ELSE <<>>

\* RiskManager.can_open_position after get_balance returned: the balance check
balance_check_fails(opportunity, size, balance) ==
    opportunity.bid_price * size > balance.available_balance

\* the daily loss check, on the daily PnL that get_daily_pnl returns
daily_loss_breached(r, daily_pnl) ==
    daily_pnl < 0 /\ Abs(daily_pnl) >= daily_loss_limit(r)

\* the reason returned by the second half of can_open_position
can_open_reason_after_await(r, t, opportunity, size, balance, day) ==
    IF balance_check_fails(opportunity, size, balance)
    THEN <<"Insufficient balance">>
    ELSE IF daily_loss_breached(r, daily_reset(t, day).daily_pnl)
         THEN DailyLossReason
         ELSE <<"OK">>

\* the risk manager after the second half of can_open_position (the latch)
can_open_latch(r, t, opportunity, size, balance, day) ==
    IF ~balance_check_fails(opportunity, size, balance)
       /\ daily_loss_breached(r, daily_reset(t, day).daily_pnl)
    THEN [r EXCEPT !.trading_halted = TRUE, !.halt_reason = DailyLossReason]
    ELSE r

\* floor(log2(n)), the binary exponent of n >= 1
RECURSIVE log2(_)
log2(n) == IF n < 2 THEN 0 ELSE 1 + log2(n \div 2)

\* the double that 1.0 + (profit / 10) evaluates to, as its distance from
\* (10 + profit)/10 in units of 2^-52 / 10; min(2.0, .) is exact from profit 10 on
profit_factor_error(profit) ==
    IF profit \in {1, 6} THEN 4
    ELSE IF profit \in {3, 8} THEN 2
    ELSE IF profit \in {2, 7} THEN -2
    ELSE IF profit \in {4, 9} THEN -4
    ELSE 0

\* int(risk_based_size * profit_factor): the product is rounded to the nearest
\* double before int() truncates it. The exact product is base*(10 + profit)/10
\* + base*error/(10 * 2^52); it truncates to anything but the floor of the first
\* term only when that term is an integer N, the error is negative and more
\* than half a unit in the last place of the doubles below N, 2^(log2(N) - 53)
profit_scaled_size(base, profit) ==
    LET factor10 == Min(20, 10 + profit)
        exact == (base * factor10) \div 10
        error == profit_factor_error(profit)
    IN  IF /\ base > 0
           /\ (base * factor10) % 10 = 0
           /\ error < 0
           /\ base * (-error) > 5 * 2^log2(exact)
        THEN exact - 1
        ELSE exact

\* RiskManager.calculate_position_size under the parameters prm
position_size(prm, opportunity, balance) ==
    LET risk_amount == (balance * prm.risk_per_trade_num) \div prm.risk_per_trade_den
        max_loss_per_contract == opportunity.bid_price
        base == risk_amount \div max_loss_per_contract
        profit_per_contract == opportunity.spread_cents - 2
        risk_based_size == IF profit_per_contract > 0
                           THEN profit_scaled_size(base, profit_per_contract)
                           ELSE base
        size == Min(risk_based_size, prm.max_position_size)
        size2 == IF opportunity.bid_price * size > balance
                 THEN balance \div opportunity.bid_price
                 ELSE size
    IN  IF max_loss_per_contract <= 0 THEN 0 ELSE Max(1, size2)

\* RiskManager.calculate_position_size
calculate_position_size(opportunity, balance) == position_size(params, opportunity, balance)

\* RiskManager.reset_daily_limits
reset_daily_limits(r) == [r EXCEPT !.trading_halted = FALSE, !.halt_reason = <<>>]

\* RiskManager.halt_trading
halt_trading(r, reason) == [r EXCEPT !.trading_halted = TRUE, !.halt_reason = reason]

\* RiskManager.resume_trading
resume_trading(r) ==
    IF ~startswith(r.halt_reason, <<"Daily loss">>)
    THEN [r EXCEPT !.trading_halted = FALSE, !.halt_reason = <<>>]
    ELSE r

----------------------------------------------------------------------------
(* MockRestClient: the exchange.  Order ids are positions in rest.orders *)

\* the Order dataclass as create_order builds it (__post_init__ included)
Order(ticker, side, action, price, count) ==
    [ticker |-> ticker, side |-> side, action |-> action, price |-> price,
     count |-> count, filled_count |-> 0, remaining_count |-> count - 0,
     status |-> "resting"]

\* MockRestClient.create_order
create_order(r, ticker, side, action, price, count) ==
    [r EXCEPT !.orders = Append(@, Order(ticker, side, action, price, count)),
              !.balance.available_balance =
                  IF action = "buy" THEN @ - price * count ELSE @]

\* the value MockRestClient.cancel_order returns
cancel_result(r, order_id) ==
    /\ order_id \in DOMAIN r.orders
    /\ r.orders[order_id].status \notin {"executed", "canceled"}

\* MockRestClient.cancel_order: the exchange afterwards
cancel_order(r, order_id) ==
    IF cancel_result(r, order_id)
    THEN [r EXCEPT !.orders[order_id].status = "canceled",
                   !.balance.available_balance =
                       IF r.orders[order_id].action = "buy"
                       THEN @ + r.orders[order_id].price * r.orders[order_id].remaining_count
                       ELSE @]
    ELSE r

\* the change of market_exposure simulate_fill applies
exposure_change(order, count_to_fill) ==
    IF order.action = "buy"
    THEN IF order.side = "yes" THEN count_to_fill ELSE -count_to_fill
    ELSE IF order.side = "yes" THEN -count_to_fill ELSE count_to_fill

\* MockRestClient.simulate_fill on a resting order
simulate_fill(r, order_id, fill_count) ==
    LET order == r.orders[order_id]
        count_to_fill == Min(fill_count, order.remaining_count)
        remaining == order.remaining_count - count_to_fill
        before == IF order.ticker \in DOMAIN r.positions THEN r.positions[order.ticker] ELSE 0
    IN  [r EXCEPT !.orders[order_id].filled_count = @ + count_to_fill,
                  !.orders[order_id].remaining_count = remaining,
                  !.orders[order_id].status = IF remaining = 0 THEN "executed" ELSE @,
                  !.positions = (order.ticker :> before + exposure_change(order, count_to_fill)) @@ @]

\* MockRestClient.get_orders(ticker, status=RESTING): the ids, in table order
RECURSIVE get_orders(_, _, _)
get_orders(r, ticker, upto) ==
    IF upto = 0 THEN <<>>
    ELSE LET rest_ids == get_orders(r, ticker, upto - 1)
             o == r.orders[upto]
         IN  IF o.status = "resting" /\ (ticker = "" \/ o.ticker = ticker)
             THEN Append(rest_ids, upto)
             ELSE rest_ids

\* the Fill and the Order simulate_fill_after_delay hands to the callbacks, as
\* messages: the Order is the order as it was when the message was sent, and a
\* Fill's trade_id is told apart by the filled_count it brought the order to
FillNotification(order_id, count, order) ==
    [kind |-> "fill", order_id |-> order_id, count |-> count,
     trade_id |-> order.filled_count, filled_count |-> 0, remaining_count |-> 0,
     status |-> ""]

OrderUpdateNotification(order_id, order) ==
    [kind |-> "order_update", order_id |-> order_id, count |-> order.count,
     trade_id |-> 0, filled_count |-> order.filled_count,
     remaining_count |-> order.remaining_count, status |-> order.status]

----------------------------------------------------------------------------
(* OrderManager *)

\* ManagedOrder as place_limit_order builds it
ManagedOrder(ticker, side, action, price, count) ==
    [ticker |-> ticker, side |-> side, action |-> action, price |-> price,
     count |-> count, filled_count |-> 0, remaining_count |-> count,
     status |-> "resting"]

\* _handle_order_update with one event shared by all orders: a terminal update
\* sets the event of every order
handle_order_update_shared_event(m, order) ==
    IF order.order_id \in DOMAIN m.orders
    THEN [m EXCEPT !.orders[order.order_id].filled_count = order.filled_count,
                   !.orders[order.order_id].remaining_count = order.remaining_count,
                   !.orders[order.order_id].status = order.status,
                   !.fill_events =
                       IF order.status \in {"executed", "canceled"}
                       THEN [id \in DOMAIN @ |-> TRUE] ELSE @]
    ELSE m

\* OrderManager._handle_order_update
handle_order_update(m, order) ==
    IF order.order_id \in DOMAIN m.orders
    THEN [m EXCEPT !.orders[order.order_id].filled_count = order.filled_count,
                   !.orders[order.order_id].remaining_count = order.remaining_count,
                   !.orders[order.order_id].status = order.status,
                   !.fill_events[order.order_id] =
                       IF order.status \in {"executed", "canceled"} THEN TRUE ELSE @]
    ELSE m

\* _handle_fill with the remaining count clamped at zero
handle_fill_clamps_remaining(m, fill) ==
    IF fill.order_id \in DOMAIN m.orders
    THEN LET remaining == Max(0, m.orders[fill.order_id].remaining_count - fill.count)
         IN  [m EXCEPT !.orders[fill.order_id].filled_count = @ + fill.count,
                       !.orders[fill.order_id].remaining_count = remaining,
                       !.orders[fill.order_id].status =
                           IF remaining <= 0 THEN "executed" ELSE @,
                       !.fill_events[fill.order_id] =
                           IF remaining <= 0 THEN TRUE ELSE @]
    ELSE m

\* OrderManager._handle_fill
handle_fill(m, fill) ==
    IF fill.order_id \in DOMAIN m.orders
    THEN LET remaining == m.orders[fill.order_id].remaining_count - fill.count
         IN  [m EXCEPT !.orders[fill.order_id].filled_count = @ + fill.count,
                       !.orders[fill.order_id].remaining_count = remaining,
                       !.orders[fill.order_id].status =
                           IF remaining <= 0 THEN "executed" ELSE @,
                       !.fill_events[fill.order_id] =
                           IF remaining <= 0 THEN TRUE ELSE @]
    ELSE m

\* the observer callbacks _handle_order_update invokes for an Order, by their
\* position in order_callbacks: the loop catches what a callback raises and goes
\* on with the next one
RECURSIVE notify_callbacks(_, _)
notify_callbacks(callbacks, upto) ==
    IF upto = 0 THEN <<>>
    ELSE Append(notify_callbacks(callbacks, upto - 1), upto)

order_update_callbacks(m, order) ==
    IF order.order_id \in DOMAIN m.orders
    THEN notify_callbacks(m.order_callbacks, Len(m.order_callbacks))
    ELSE <<>>

\* the observer callbacks _handle_fill invokes for a Fill: it has no callback loop
fill_callbacks(m, fill) == <<>>

\* OrderManager.on_order_update; a callback is what it does when invoked:
\* "returns" or "raises"
on_order_update(m, callback) == [m EXCEPT !.order_callbacks = Append(@, callback)]

\* place_limit_order registering the order as pending
place_limit_order_pending(m, order_id, ticker, side, action, price, count) ==
    [m EXCEPT !.orders = (order_id :> [ManagedOrder(ticker, side, action, price, count)
                                       EXCEPT !.status = "pending"]) @@ @,
              !.fill_events = (order_id :> FALSE) @@ @]

\* OrderManager.place_limit_order after create_order returned order_id
place_limit_order(m, order_id, ticker, side, action, price, count) ==
    [m EXCEPT !.orders = (order_id :> ManagedOrder(ticker, side, action, price, count)) @@ @,
              !.fill_events = (order_id :> FALSE) @@ @]

\* OrderManager.cancel_order after the REST cancel returned result
cancel_order_local(m, order_id, result) ==
    IF result /\ order_id \in DOMAIN m.orders
    THEN [m EXCEPT !.orders[order_id].status = "cancelled",
                   !.fill_events[order_id] = TRUE]
    ELSE m

\* the loop of cancel_all_orders counting every attempt, successful or not
cancel_all_step_counts_attempts(s, result) ==
    [s EXCEPT !.todo = Tail(@), !.cancelled = @ + 1]

\* one iteration of the loop of cancel_all_orders, given what cancel_order returned
cancel_all_step(s, result) ==
    [s EXCEPT !.todo = Tail(@), !.cancelled = IF result THEN @ + 1 ELSE @]

\* OrderManager.wait_for_fill before it suspends: ERROR at once for an order id
\* that is not in the table, otherwise it waits on the order's fill event
wait_for_fill_entry(m, order_id) ==
    IF order_id \notin DOMAIN m.orders THEN "error" ELSE "wait"

\* wait_for_fill reporting every cancelled order as CANCELLED, filled or not
wait_for_fill_woken_ignores_fills(order) ==
    IF order.status = "executed" THEN "filled"
    ELSE IF order.status = "canceled" THEN "cancelled"
         ELSE "error"

\* OrderManager.wait_for_fill, woken by the fill event: the FillResult for the
\* Order that get_order returned
wait_for_fill_woken_result(order) ==
    IF order.status = "executed" THEN "filled"
    ELSE IF order.status = "canceled"
         THEN IF order.filled_count > 0 THEN "partial" ELSE "cancelled"
         ELSE "error"

\* OrderManager.wait_for_fill, woken by the fill event: the manager afterwards
wait_for_fill_woken(m, order_id, order) ==
    IF order.status = "executed"
    THEN [m EXCEPT !.orders[order_id].status = "executed",
                   !.orders[order_id].filled_count = order.filled_count,
                   !.orders[order_id].remaining_count = 0]
    ELSE IF order.status = "canceled"
         THEN [m EXCEPT !.orders[order_id].status = "cancelled"]
         ELSE m

\* the timeout path of wait_for_fill without its look at filled_count
wait_for_fill_timeout_always_timeout(order) == "timeout"

\* OrderManager.wait_for_fill after asyncio.TimeoutError: the FillResult
wait_for_fill_timeout_result(order) ==
    IF order.filled_count > 0 THEN "partial" ELSE "timeout"

\* OrderManager.wait_for_fill after asyncio.TimeoutError: the manager afterwards
wait_for_fill_timeout(m, order_id, order) ==
    IF order.filled_count > 0
    THEN [m EXCEPT !.orders[order_id].filled_count = order.filled_count,
                   !.orders[order_id].remaining_count = order.remaining_count]
    ELSE m

\* OrderManager.get_active_orders
get_active_orders(m, ticker) ==
    {id \in DOMAIN m.orders :
        /\ m.orders[id].status \in {"pending", "resting"}
        /\ (ticker = "" \/ m.orders[id].ticker = ticker)}

----------------------------------------------------------------------------
(* Initial values: every object as its constructor leaves it *)

Balances == {200, 50}

MockRestClient(bal) ==
    [orders |-> <<>>, positions |-> <<>>,
     balance |-> [balance |-> bal, available_balance |-> bal]]

PositionTracker == [positions |-> <<>>, daily_pnl |-> 0, daily_pnl_reset |-> 0]

RiskManager == [initial_balance |-> 0, trading_halted |-> FALSE, halt_reason |-> <<>>]

OrderManager == [orders |-> <<>>, fill_events |-> <<>>, order_callbacks |-> <<>>]

\* TokenBucket after __post_init__, for a bucket nothing calls
TokenBucket == [tokens |-> 0, last_refill |-> 0, lock |-> 0]

NoCall == [pc |-> "idle", opportunity |-> Opportunity("T1", "yes", 45, 50), size |-> 0,
           reason |-> <<>>]

\* no cancel_all_orders call in progress; ticker is the filter of the call and
\* failed records whether one of its cancels raised
NoSweep == [pc |-> "idle", todo |-> <<>>, cancelled |-> 0, ticker |-> "", failed |-> FALSE]

\* nothing recorded yet; realized is the caller's own account of the PnL its
\* reductions realized on the UTC day it last recorded one
History ==
    [daily_latched |-> FALSE, invoked |-> <<>>, returned |-> "none",
     realized |-> [day |-> 0, sum |-> 0]]

InitCommon ==
    /\ ws = {}
    /\ om = OrderManager
    /\ pt = PositionTracker
    /\ rm = RiskManager
    /\ trades = <<>>
    /\ cop = NoCall
    /\ sweep = NoSweep
    /\ bucket = TokenBucket
    /\ callers = <<>>
    /\ clock = [now |-> 0, day |-> 0]
    /\ hist = History

----------------------------------------------------------------------------
(* Portfolio: PositionTracker and RiskManager driven directly by a caller *)

PortfolioOpps ==
    { Opportunity("T1", "yes", 45, 50), Opportunity("T2", "no", 50, 50) }

InitPortfolio ==
    /\ \E bal \in Balances : rest = MockRestClient(bal)
    /\ InitCommon

\* RiskManager.initialize
Initialize ==
    /\ rm' = [rm EXCEPT !.initial_balance = rest.balance.balance]
    /\ UNCHANGED <<rest, ws, om, pt, trades, cop, sweep, bucket, callers, clock, hist>>

\* PositionTracker.update_position called with a fill
UpdatePosition(ticker, side, qty_change, price) ==
    /\ pt' = update_position(pt, ticker, side, qty_change, price, clock.day)
    /\ \A k \in DOMAIN pt'.positions :
          /\ pt'.positions[k].quantity <= MaxQty
          /\ Abs(pt'.positions[k].realized_pnl) <= MaxPnl
    /\ UNCHANGED <<rest, ws, om, rm, trades, cop, sweep, bucket, callers, clock, hist>>

\* the account's exposure changes at the exchange (a fill, or a manual trade)
ApiPosition(ticker, exposure) ==
    /\ rest' = [rest EXCEPT !.positions = (ticker :> exposure) @@ @]
    /\ UNCHANGED <<ws, om, pt, rm, trades, cop, sweep, bucket, callers, clock, hist>>

\* PositionTracker.sync_positions with a successful get_positions
SyncPositions ==
    /\ pt' = sync_positions(pt, rest.positions)
    /\ UNCHANGED <<rest, ws, om, rm, trades, cop, sweep, bucket, callers, clock, hist>>

\* PositionTracker.update_price
UpdatePrice(ticker, price) ==
    /\ ticker \in DOMAIN pt.positions
    /\ pt' = [pt EXCEPT !.positions[ticker] = update_price(@, price)]
    /\ UNCHANGED <<rest, ws, om, rm, trades, cop, sweep, bucket, callers, clock, hist>>

\* PositionTracker.get_daily_pnl
GetDailyPnl ==
    /\ pt' = daily_reset(pt, clock.day)
    /\ UNCHANGED <<rest, ws, om, rm, trades, cop, sweep, bucket, callers, clock, hist>>

\* a UTC midnight passes
Midnight ==
    /\ clock.day < MaxDay
    /\ clock' = [clock EXCEPT !.day = @ + 1]
    /\ UNCHANGED <<rest, ws, om, pt, rm, trades, cop, sweep, bucket, callers, hist>>

\* RiskManager.can_open_position is called and runs to its await of get_balance,
\* or returns the reason of a failing check
CanOpenCall(opportunity, size) ==
    /\ cop.pc # "await"
    /\ LET reason == can_open_checks_before_await(rm, pt, opportunity, size)
       IN  cop' = IF reason = <<>>
                  THEN [pc |-> "await", opportunity |-> opportunity, size |-> size,
                        reason |-> reason]
                  ELSE [NoCall EXCEPT !.pc = "returned", !.reason = reason]
    /\ UNCHANGED <<rest, ws, om, pt, rm, trades, sweep, bucket, callers, clock, hist>>

\* get_balance returns and can_open_position runs to its end
CanOpenReturn ==
    /\ cop.pc = "await"
    /\ cop' = [NoCall EXCEPT !.pc = "returned",
                             !.reason = can_open_reason_after_await(
                                 rm, pt, cop.opportunity, cop.size, rest.balance, clock.day)]
    /\ rm' = can_open_latch(rm, pt, cop.opportunity, cop.size, rest.balance, clock.day)
    /\ pt' = IF balance_check_fails(cop.opportunity, cop.size, rest.balance)
             THEN pt ELSE daily_reset(pt, clock.day)
    /\ hist' = [hist EXCEPT !.daily_latched = @ \/ cop'.reason = DailyLossReason]
    /\ UNCHANGED <<rest, ws, om, trades, sweep, bucket, callers, clock>>

\* RiskManager.halt_trading
HaltTrading(reason) ==
    /\ rm' = halt_trading(rm, reason)
    /\ UNCHANGED <<rest, ws, om, pt, trades, cop, sweep, bucket, callers, clock, hist>>

\* RiskManager.resume_trading
ResumeTrading ==
    /\ rm' = resume_trading(rm)
    /\ UNCHANGED <<rest, ws, om, pt, trades, cop, sweep, bucket, callers, clock, hist>>

\* RiskManager.reset_daily_limits
ResetDailyLimits ==
    /\ rm' = reset_daily_limits(rm)
    /\ hist' = [hist EXCEPT !.daily_latched = FALSE]
    /\ UNCHANGED <<rest, ws, om, pt, trades, cop, sweep, bucket, callers, clock>>

NextTracker ==
    \/ \E k \in TrackerTickers, s \in Sides, q \in (-MaxQty..MaxQty), p \in Prices :
          UpdatePosition(k, s, q, p)
    \/ \E k \in TrackerTickers, e \in (-MaxExposure..MaxExposure) : ApiPosition(k, e)
    \/ SyncPositions
    \/ \E k \in TrackerTickers, p \in Prices : UpdatePrice(k, p)
    \/ GetDailyPnl
    \/ Midnight

SpecTracker == InitPortfolio /\ [][NextTracker]_vars

\* fills reach the tracker one contract at a time: a buy at the ask, a sale at
\* the bid (a loss of the spread) or at the ask (flat)
NextRisk ==
    \/ Initialize
    \/ \E o \in PortfolioOpps, q \in {-1, 1} :
       \E p \in (IF q > 0 THEN {o.ask_price} ELSE {o.bid_price, o.ask_price}) :
          /\ UpdatePosition(o.ticker, o.side, q, p)
          /\ \A k \in DOMAIN pt'.positions : pt'.positions[k].quantity <= MaxRiskQty
    \/ \E o \in PortfolioOpps, n \in 1..(params.max_position_size + 1) : CanOpenCall(o, n)
    \/ CanOpenReturn
    \/ \E r \in HaltReasons : HaltTrading(r)
    \/ ResumeTrading
    \/ ResetDailyLimits

SpecRisk == InitPortfolio /\ [][NextRisk]_vars

----------------------------------------------------------------------------
(* TokenBucket: time in ticks, refill_rate tokens per tick *)

BucketCapacity == 2      \* TokenBucket.capacity
BucketRefillRate == 1    \* TokenBucket.refill_rate
MaxTime == 3             \* ticks of time.monotonic() that pass
Callers == {1, 2}        \* tasks calling TokenBucket.acquire

\* TokenBucket._refill at time now
refill(b, now) ==
    [b EXCEPT !.tokens = Min(BucketCapacity, b.tokens + (now - b.last_refill) * BucketRefillRate),
              !.last_refill = now]

\* wait_time of acquire: deficit / refill_rate, rounded up to whole ticks
wait_time(b, n) == ((n - b.tokens) + BucketRefillRate - 1) \div BucketRefillRate

\* TokenBucket.acquire from taking the lock to its await of sleep, or to its return
acquire_locked(c, n) ==
    LET b == refill(bucket, clock.now) IN
    IF b.tokens < n
    THEN /\ bucket' = [b EXCEPT !.lock = c]
         /\ callers' = [callers EXCEPT ![c] =
                [pc |-> "sleeping", n |-> n, wake_at |-> clock.now + wait_time(b, n)]]
    ELSE /\ bucket' = [b EXCEPT !.tokens = @ - n, !.lock = 0]
         /\ callers' = [callers EXCEPT ![c] = [pc |-> "idle", n |-> 0, wake_at |-> 0]]

\* acquire(n) is called: the caller takes the free lock, or queues for it
Acquire(c, n) ==
    /\ callers[c].pc = "idle"
    /\ IF bucket.lock = 0
       THEN acquire_locked(c, n)
       ELSE /\ callers' = [callers EXCEPT ![c] = [pc |-> "blocked", n |-> n, wake_at |-> 0]]
            /\ UNCHANGED bucket
    /\ UNCHANGED <<rest, ws, om, pt, rm, trades, cop, sweep, clock, hist>>

\* a caller queued on the lock is given it
AcquireLock(c) ==
    /\ callers[c].pc = "blocked"
    /\ bucket.lock = 0
    /\ acquire_locked(c, callers[c].n)
    /\ UNCHANGED <<rest, ws, om, pt, rm, trades, cop, sweep, clock, hist>>

\* asyncio.sleep(wait_time) returns, no earlier than asked: second refill, debit
AcquireWake(c) ==
    /\ callers[c].pc = "sleeping"
    /\ clock.now >= callers[c].wake_at
    /\ bucket' = [refill(bucket, clock.now) EXCEPT !.tokens = @ - callers[c].n, !.lock = 0]
    /\ callers' = [callers EXCEPT ![c] = [pc |-> "idle", n |-> 0, wake_at |-> 0]]
    /\ UNCHANGED <<rest, ws, om, pt, rm, trades, cop, sweep, clock, hist>>

\* TokenBucket.try_acquire(n)
TryAcquire(n) ==
    /\ LET b == refill(bucket, clock.now)
       IN  bucket' = IF b.tokens >= n THEN [b EXCEPT !.tokens = @ - n] ELSE b
    /\ UNCHANGED <<rest, ws, om, pt, rm, trades, cop, sweep, callers, clock, hist>>

\* RateLimiter.read_tokens_available / write_tokens_available
TokensAvailable ==
    /\ bucket' = refill(bucket, clock.now)
    /\ UNCHANGED <<rest, ws, om, pt, rm, trades, cop, sweep, callers, clock, hist>>

\* time.monotonic() advances
Tick ==
    /\ clock.now < MaxTime
    /\ clock' = [clock EXCEPT !.now = @ + 1]
    /\ UNCHANGED <<rest, ws, om, pt, rm, trades, cop, sweep, bucket, callers, hist>>

InitBucket ==
    /\ rest = MockRestClient(200)
    /\ ws = {}
    /\ om = OrderManager
    /\ pt = PositionTracker
    /\ rm = RiskManager
    /\ trades = <<>>
    /\ cop = NoCall
    /\ sweep = NoSweep
    /\ bucket = [tokens |-> BucketCapacity, last_refill |-> 0, lock |-> 0]
    /\ callers = [c \in Callers |-> [pc |-> "idle", n |-> 0, wake_at |-> 0]]
    /\ clock = [now |-> 0, day |-> 0]
    /\ hist = History

NextBucket ==
    \/ \E c \in Callers, n \in 1..BucketCapacity : Acquire(c, n)
    \/ \E c \in Callers : AcquireLock(c)
    \/ \E c \in Callers : AcquireWake(c)
    \/ \E n \in 1..BucketCapacity : TryAcquire(n)
    \/ TokensAvailable
    \/ Tick

SpecBucket == InitBucket /\ [][NextBucket]_vars

----------------------------------------------------------------------------
(* ExecutionEngine.execute_spread_trade: one record per call, one action per
   stretch of code between two awaits *)

Trades == {1}            \* tasks calling execute_spread_trade

EngineOpps == { Opportunity("T1", "yes", 45, 50), Opportunity("T1", "yes", 0, 5) }
EngineBalances == {200, 40}
ApiError == <<"[500] ERROR: request failed">>

\* TradeResult(success=False, ticker=ticker)
TradeResult(ticker) ==
    [success |-> FALSE, ticker |-> ticker, buy_order_id |-> 0, sell_order_id |-> 0,
     buy_fill_result |-> "none", sell_fill_result |-> "none", quantity_filled |-> 0,
     entry_price |-> 0, exit_price |-> 0, gross_pnl |-> 0, fees |-> 0, net_pnl |-> 0,
     error_message |-> <<>>]

\* the locals of a call; order ids and messages not yet set are 0 and <<>>.
\* Below the result: what the call did, recorded for the properties
Trade(opportunity, pc, n_orders) ==
    [pc |-> pc, leg |-> "buy", opportunity |-> opportunity, size |-> 0,
     order_id |-> 0, filled_qty |-> 0, quantity |-> 0,
     result |-> TradeResult(opportunity.ticker),
     raised |-> FALSE, failed |-> {}, risk_reason |-> <<>>, creates |-> 0,
     orders_before |-> n_orders, cancel_requested |-> {},
     buy_timeout_fill |-> -1, sell_timeout_fill |-> -1,
     wait_timeout |-> 0, cancel_fill |-> -1]

\* _calculate_pnl charging the fee of one side only
calculate_trade_pnl_one_side_fee(result, quantity) ==
    LET gross == (result.exit_price - result.entry_price) * quantity
        fees == quantity
    IN  [result EXCEPT !.gross_pnl = gross, !.fees = fees, !.net_pnl = gross - fees]

\* ExecutionEngine._calculate_pnl
calculate_trade_pnl(result, quantity) ==
    LET gross == (result.exit_price - result.entry_price) * quantity
        fees == quantity * 2
    IN  [result EXCEPT !.gross_pnl = gross, !.fees = fees, !.net_pnl = gross - fees]

\* the exception handlers with the message assignment left out
handle_exception_drops_message(tr, call, e) ==
    [tr EXCEPT !.failed = @ \cup {call},
               !.pc = "done"]

\* the except clauses: _exit_partial_position catches what its own try raises,
\* everything else reaches the handler of execute_spread_trade
handle_exception(tr, call, e) ==
    [tr EXCEPT !.result.error_message =
                   IF tr.leg = "exit" THEN <<"Failed to exit partial: ">> \o e ELSE e,
               !.failed = @ \cup {call},
               !.pc = "done"]

\* execute_spread_trade: size <= 0
size_is_zero(tr) ==
    [tr EXCEPT !.result.error_message = <<"Position size calculated as 0">>, !.pc = "done"]

\* the risk rejection branch without its return: the call goes on to place the buy
risk_check_failed_proceeds(tr, reason) ==
    [tr EXCEPT !.result.error_message = <<"Risk check failed: ">> \o reason,
               !.risk_reason = reason, !.pc = "place"]

\* execute_spread_trade: not can_trade
risk_check_failed(tr, reason) ==
    [tr EXCEPT !.result.error_message = <<"Risk check failed: ">> \o reason,
               !.risk_reason = reason, !.pc = "done"]

\* the buy leg without its CANCELLED branch: a cancelled buy goes on to the sell
after_buy_wait_ignores_cancelled(tr, fill_result, m) ==
    LET r1 == [tr EXCEPT !.result.buy_fill_result = fill_result] IN
    IF fill_result = "timeout" THEN [r1 EXCEPT !.pc = "cancel"]
    ELSE IF fill_result = "error"
         THEN [r1 EXCEPT !.result.error_message = <<"Buy order encountered an error">>,
                         !.pc = "done"]
    ELSE LET filled_qty == IF tr.order_id \in DOMAIN m.orders
                           THEN m.orders[tr.order_id].filled_count ELSE tr.size
         IN  [r1 EXCEPT !.filled_qty = filled_qty,
                        !.result.quantity_filled = filled_qty,
                        !.result.entry_price = tr.opportunity.bid_price,
                        !.leg = "sell", !.pc = "place"]

\* execute_spread_trade after wait_for_fill returned fill_result for the buy order,
\* given the order manager and tracker at that moment: the call afterwards
after_buy_wait(tr, fill_result, m) ==
    LET r1 == [tr EXCEPT !.result.buy_fill_result = fill_result] IN
    IF fill_result = "timeout" THEN [r1 EXCEPT !.pc = "cancel"]
    ELSE IF fill_result = "cancelled"
         THEN [r1 EXCEPT !.result.error_message = <<"Buy order was cancelled">>, !.pc = "done"]
    ELSE IF fill_result = "error"
         THEN [r1 EXCEPT !.result.error_message = <<"Buy order encountered an error">>,
                         !.pc = "done"]
    ELSE LET filled_qty == IF tr.order_id \in DOMAIN m.orders
                           THEN m.orders[tr.order_id].filled_count ELSE tr.size
         IN  [r1 EXCEPT !.filled_qty = filled_qty,
                        !.result.quantity_filled = filled_qty,
                        !.result.entry_price = tr.opportunity.bid_price,
                        !.leg = "sell", !.pc = "place"]

\* the sell leg returning without setting success
after_sell_wait_no_success(tr, fill_result) ==
    LET r1 == [tr EXCEPT !.result.sell_fill_result = fill_result] IN
    IF fill_result = "timeout" THEN [r1 EXCEPT !.pc = "cancel"]
    ELSE IF fill_result \in {"cancelled", "error"}
         THEN [r1 EXCEPT !.result.error_message =
                             <<"Sell order ", fill_result, " - position still open">>,
                         !.pc = "done"]
    ELSE [r1 EXCEPT !.result = calculate_trade_pnl(
                                   [@ EXCEPT !.exit_price = tr.opportunity.ask_price],
                                   tr.filled_qty),
                    !.pc = "done"]

\* execute_spread_trade after wait_for_fill returned fill_result for the sell order
after_sell_wait(tr, fill_result) ==
    LET r1 == [tr EXCEPT !.result.sell_fill_result = fill_result] IN
    IF fill_result = "timeout" THEN [r1 EXCEPT !.pc = "cancel"]
    ELSE IF fill_result \in {"cancelled", "error"}
         THEN [r1 EXCEPT !.result.error_message =
                             <<"Sell order ", fill_result, " - position still open">>,
                         !.pc = "done"]
    ELSE [r1 EXCEPT !.result = [calculate_trade_pnl(
                                    [@ EXCEPT !.exit_price = tr.opportunity.ask_price],
                                    tr.filled_qty)
                                EXCEPT !.success = TRUE],
                    !.pc = "done"]

\* _exit_partial_position after wait_for_fill returned fill_result for its sell order
after_exit_wait(tr, fill_result) ==
    LET r1 == [tr EXCEPT !.result.sell_fill_result = fill_result, !.pc = "done"] IN
    IF fill_result = "filled"
    THEN [r1 EXCEPT !.result = calculate_trade_pnl(
                                   [@ EXCEPT !.exit_price = tr.opportunity.ask_price],
                                   tr.quantity)]
    ELSE [r1 EXCEPT !.result.error_message = <<"Failed to exit partial position">>]

\* the tracker after the code that follows a wait_for_fill
tracker_after_wait(t0, tr, tr2, fill_result, day) ==
    IF tr.leg = "buy" /\ tr2.leg = "sell"
    THEN update_position(t0, tr.opportunity.ticker, tr.opportunity.side,
                         tr2.filled_qty, tr.opportunity.bid_price, day)
    ELSE IF tr.leg = "sell" /\ tr2.result.success
    THEN update_position(t0, tr.opportunity.ticker, tr.opportunity.side,
                         -tr.filled_qty, tr.opportunity.ask_price, day)
    ELSE IF tr.leg = "exit" /\ fill_result = "filled"
    THEN update_position(t0, tr.opportunity.ticker, tr.opportunity.side,
                         -tr.quantity, tr.opportunity.ask_price, day)
    ELSE t0

\* the code that follows a wait_for_fill, by the leg the call is in
after_wait(tr, fill_result, m) ==
    IF tr.leg = "buy" THEN after_buy_wait(tr, fill_result, m)
    ELSE IF tr.leg = "sell" THEN after_sell_wait(tr, fill_result)
    ELSE after_exit_wait(tr, fill_result)

\* the code after cancel_order taking a sell order with zero fill for a partial sell
after_cancel_counts_zero_fill(tr, m) ==
    LET filled == IF tr.order_id \in DOMAIN m.orders
                  THEN m.orders[tr.order_id].filled_count ELSE 0
        tr0 == [tr EXCEPT !.cancel_fill = filled]
    IN  IF tr.leg = "buy"
        THEN IF filled > 0
             THEN [tr0 EXCEPT !.result.quantity_filled = filled,
                              !.result.entry_price = tr.opportunity.bid_price,
                              !.quantity = filled, !.leg = "exit", !.pc = "place"]
             ELSE [tr0 EXCEPT !.result.error_message = <<"Buy order timed out with no fill">>,
                              !.pc = "done"]
        ELSE [tr0 EXCEPT !.result = [calculate_trade_pnl(
                                         [@ EXCEPT !.exit_price = tr.opportunity.ask_price],
                                         filled)
                                     EXCEPT !.error_message = <<"Partial sell">>],
                         !.pc = "done"]

\* execute_spread_trade after cancel_order returned, for the buy and the sell order
after_cancel(tr, m) ==
    LET filled == IF tr.order_id \in DOMAIN m.orders
                  THEN m.orders[tr.order_id].filled_count ELSE 0
        tr0 == [tr EXCEPT !.cancel_fill = filled]
    IN  IF tr.leg = "buy"
        THEN IF filled > 0
             THEN [tr0 EXCEPT !.result.quantity_filled = filled,
                              !.result.entry_price = tr.opportunity.bid_price,
                              !.quantity = filled, !.leg = "exit", !.pc = "place"]
             ELSE [tr0 EXCEPT !.result.error_message = <<"Buy order timed out with no fill">>,
                              !.pc = "done"]
        ELSE IF filled > 0
             THEN [tr0 EXCEPT !.result = [calculate_trade_pnl(
                                              [@ EXCEPT !.exit_price = tr.opportunity.ask_price],
                                              filled)
                                          EXCEPT !.error_message = <<"Partial sell">>],
                              !.pc = "done"]
             ELSE [tr0 EXCEPT !.result.error_message =
                                  <<"Sell order timed out - position still open">>,
                              !.pc = "done"]

\* execute_spread_trade is called and runs to its await of get_balance
Call(t, opportunity) ==
    /\ trades[t].pc = "idle"
    /\ trades' = [trades EXCEPT ![t] = Trade(opportunity, "start", Len(rest.orders))]
    /\ UNCHANGED <<rest, ws, om, pt, rm, cop, sweep, bucket, callers, clock, hist>>

\* the first half of the call with a duplicate check that also looks at the
\* manager's active orders on the ticker
GetBalanceReturnsChecksOrders(t) ==
    LET tr == trades[t]
        size == calculate_position_size(tr.opportunity, rest.balance.available_balance)
        reason == IF get_active_orders(om, tr.opportunity.ticker) # {}
                  THEN <<"Already have position in ", tr.opportunity.ticker>>
                  ELSE can_open_checks_before_await(rm, pt, tr.opportunity, size)
    IN  /\ tr.pc = "start"
        /\ trades' = [trades EXCEPT ![t] =
              IF size <= 0 THEN size_is_zero([tr EXCEPT !.size = size])
              ELSE IF reason # <<>> THEN risk_check_failed([tr EXCEPT !.size = size], reason)
              ELSE [tr EXCEPT !.size = size, !.pc = "risk"]]
        /\ UNCHANGED <<rest, ws, om, pt, rm, cop, sweep, bucket, callers, clock, hist>>

\* get_balance returns: sizing, then can_open_position up to its own get_balance
GetBalanceReturns(t) ==
    LET tr == trades[t]
        size == calculate_position_size(tr.opportunity, rest.balance.available_balance)
        reason == can_open_checks_before_await(rm, pt, tr.opportunity, size)
    IN  /\ tr.pc = "start"
        /\ trades' = [trades EXCEPT ![t] =
              IF size <= 0 THEN size_is_zero([tr EXCEPT !.size = size])
              ELSE IF reason # <<>> THEN risk_check_failed([tr EXCEPT !.size = size], reason)
              ELSE [tr EXCEPT !.size = size, !.pc = "risk"]]
        /\ UNCHANGED <<rest, ws, om, pt, rm, cop, sweep, bucket, callers, clock, hist>>

\* the get_balance of can_open_position returns: balance and daily loss checks
RiskBalanceReturns(t) ==
    LET tr == trades[t]
        reason == can_open_reason_after_await(rm, pt, tr.opportunity, tr.size,
                                              rest.balance, clock.day)
    IN  /\ tr.pc = "risk"
        /\ rm' = can_open_latch(rm, pt, tr.opportunity, tr.size, rest.balance, clock.day)
        /\ pt' = IF balance_check_fails(tr.opportunity, tr.size, rest.balance)
                 THEN pt ELSE daily_reset(pt, clock.day)
        /\ hist' = [hist EXCEPT !.daily_latched = @ \/ reason = DailyLossReason]
        /\ trades' = [trades EXCEPT ![t] =
              IF reason # <<"OK">> THEN risk_check_failed(tr, reason)
              ELSE [tr EXCEPT !.pc = "place"]]
        /\ UNCHANGED <<rest, ws, om, cop, sweep, bucket, callers, clock>>

\* a get_balance call fails
GetBalanceFails(t) ==
    /\ trades[t].pc \in {"start", "risk"}
    /\ trades' = [trades EXCEPT ![t] = handle_exception(@, "get_balance", ApiError)]
    /\ UNCHANGED <<rest, ws, om, pt, rm, cop, sweep, bucket, callers, clock, hist>>

\* the price, the count and the wait_for_fill timeout of the order a call places
\* in its current leg
order_timeout(tr) ==
    IF tr.leg = "exit" THEN params.order_timeout_seconds * 2
    ELSE params.order_timeout_seconds

order_price(tr) ==
    IF tr.leg = "buy" THEN tr.opportunity.bid_price ELSE tr.opportunity.ask_price

order_count(tr) ==
    IF tr.leg = "buy" THEN tr.size
    ELSE IF tr.leg = "sell" THEN tr.filled_qty
    ELSE tr.quantity

\* create_order returns: place_limit_order registers the order, the engine notes
\* its id and wait_for_fill starts waiting on the fill event
CreateOrderReturns(t) ==
    LET tr == trades[t]
        order_id == Len(rest.orders) + 1
        action == IF tr.leg = "buy" THEN "buy" ELSE "sell"
    IN  /\ tr.pc = "place"
        /\ rest' = create_order(rest, tr.opportunity.ticker, tr.opportunity.side, action,
                                order_price(tr), order_count(tr))
        /\ om' = place_limit_order(om, order_id, tr.opportunity.ticker, tr.opportunity.side,
                                   action, order_price(tr), order_count(tr))
        /\ trades' = [trades EXCEPT ![t] =
              [tr EXCEPT !.order_id = order_id,
                         !.result.buy_order_id = IF tr.leg = "buy" THEN order_id ELSE @,
                         !.result.sell_order_id = IF tr.leg = "buy" THEN @ ELSE order_id,
                         !.creates = @ + 1,
                         !.wait_timeout = order_timeout(tr),
                         !.pc = "wait"]]
        /\ UNCHANGED <<ws, pt, rm, cop, sweep, bucket, callers, clock, hist>>

\* create_order fails: place_limit_order re-raises
CreateOrderFails(t) ==
    /\ trades[t].pc = "place"
    /\ trades' = [trades EXCEPT ![t] =
          handle_exception([@ EXCEPT !.creates = @ + 1], "create_order", ApiError)]
    /\ UNCHANGED <<rest, ws, om, pt, rm, cop, sweep, bucket, callers, clock, hist>>

\* the fill event is set: wait_for_fill reads the order and returns, and the
\* engine runs to its next await
WaitSignalled(t) ==
    LET tr == trades[t]
        order == rest.orders[tr.order_id]
        fill_result == wait_for_fill_woken_result(order)
        m == wait_for_fill_woken(om, tr.order_id, order)
        tr2 == after_wait(tr, fill_result, m)
    IN  /\ tr.pc = "wait"
        /\ wait_for_fill_entry(om, tr.order_id) = "wait"
        /\ om.fill_events[tr.order_id]
        /\ om' = m
        /\ trades' = [trades EXCEPT ![t] = tr2]
        /\ pt' = tracker_after_wait(pt, tr, tr2, fill_result, clock.day)
        /\ UNCHANGED <<rest, ws, rm, cop, sweep, bucket, callers, clock, hist>>

\* wait_for_fill going back to its wait when the timeout elapses
WaitTimeoutWaitsAgain(t) ==
    /\ trades[t].pc = "wait"
    /\ wait_for_fill_entry(om, trades[t].order_id) = "wait"
    /\ ~om.fill_events[trades[t].order_id]
    /\ trades' = [trades EXCEPT ![t].pc = "wait"]
    /\ UNCHANGED <<rest, ws, om, pt, rm, cop, sweep, bucket, callers, clock, hist>>

\* the timeout of wait_for_fill elapses before the fill event is set
WaitTimeout(t) ==
    /\ trades[t].pc = "wait"
    /\ wait_for_fill_entry(om, trades[t].order_id) = "wait"
    /\ ~om.fill_events[trades[t].order_id]
    /\ trades' = [trades EXCEPT ![t].pc = "timedout"]
    /\ UNCHANGED <<rest, ws, om, pt, rm, cop, sweep, bucket, callers, clock, hist>>

\* the get_order of the timeout path returns
TimeoutGetOrderReturns(t) ==
    LET tr == trades[t]
        order == rest.orders[tr.order_id]
        fill_result == wait_for_fill_timeout_result(order)
        m == wait_for_fill_timeout(om, tr.order_id, order)
        tr1 == [tr EXCEPT !.buy_timeout_fill = IF tr.leg = "buy" THEN order.filled_count ELSE @,
                          !.sell_timeout_fill = IF tr.leg = "sell" THEN order.filled_count ELSE @]
        tr2 == after_wait(tr1, fill_result, m)
    IN  /\ tr.pc = "timedout"
        /\ om' = m
        /\ trades' = [trades EXCEPT ![t] = tr2]
        /\ pt' = tracker_after_wait(pt, tr1, tr2, fill_result, clock.day)
        /\ UNCHANGED <<rest, ws, rm, cop, sweep, bucket, callers, clock, hist>>

\* the get_order of wait_for_fill fails, on either path
GetOrderFails(t) ==
    /\ \/ trades[t].pc = "timedout"
       \/ trades[t].pc = "wait" /\ om.fill_events[trades[t].order_id]
    /\ trades' = [trades EXCEPT ![t] = handle_exception(@, "get_order", ApiError)]
    /\ UNCHANGED <<rest, ws, om, pt, rm, cop, sweep, bucket, callers, clock, hist>>

\* the tracker after the code that follows cancel_order
tracker_after_cancel(t0, tr, tr2, day) ==
    IF tr2.leg = "exit"
    THEN update_position(t0, tr.opportunity.ticker, tr.opportunity.side,
                         tr2.quantity, tr.opportunity.bid_price, day)
    ELSE t0

\* the REST cancel returns: OrderManager.cancel_order marks the order, the engine
\* reads it back and runs to its next await
CancelReturns(t) ==
    LET tr == trades[t]
        m == cancel_order_local(om, tr.order_id, cancel_result(rest, tr.order_id))
        tr2 == after_cancel([tr EXCEPT !.cancel_requested = @ \cup {tr.order_id}], m)
    IN  /\ tr.pc = "cancel"
        /\ rest' = cancel_order(rest, tr.order_id)
        /\ om' = m
        /\ trades' = [trades EXCEPT ![t] = tr2]
        /\ pt' = tracker_after_cancel(pt, tr, tr2, clock.day)
        /\ UNCHANGED <<ws, rm, cop, sweep, bucket, callers, clock, hist>>

\* the REST cancel fails: OrderManager.cancel_order returns False
CancelFails(t) ==
    LET tr == trades[t]
        tr2 == after_cancel([tr EXCEPT !.cancel_requested = @ \cup {tr.order_id},
                                       !.failed = @ \cup {"cancel_order"}], om)
    IN  /\ tr.pc = "cancel"
        /\ trades' = [trades EXCEPT ![t] = tr2]
        /\ pt' = tracker_after_cancel(pt, tr, tr2, clock.day)
        /\ UNCHANGED <<rest, ws, om, rm, cop, sweep, bucket, callers, clock, hist>>

----------------------------------------------------------------------------
(* The exchange, the notification stream and the operator *)

\* a resting order is filled for fill_count contracts (simulate_fill); the Fill and
\* the Order as it is now are sent to the callbacks (simulate_fill_after_delay)
ExchangeFill(order_id, fill_count) ==
    /\ order_id \in DOMAIN rest.orders
    /\ rest.orders[order_id].status = "resting"
    /\ rest' = simulate_fill(rest, order_id, fill_count)
    /\ ws' = ws \cup
          { FillNotification(order_id,
                             Min(fill_count, rest.orders[order_id].remaining_count),
                             rest'.orders[order_id]),
            OrderUpdateNotification(order_id, rest'.orders[order_id]) }
    /\ UNCHANGED <<om, pt, rm, trades, cop, sweep, bucket, callers, clock, hist>>

\* a notification reaches the callback the OrderManager registered for its kind;
\* notifications are delivered in any order, and one never delivered is lost
Deliver(n) ==
    /\ n \in ws
    /\ ws' = ws \ {n}
    /\ om' = IF n.kind = "fill" THEN handle_fill(om, n) ELSE handle_order_update(om, n)
    /\ hist' = [hist EXCEPT !.invoked = IF n.kind = "fill" THEN fill_callbacks(om, n)
                                        ELSE order_update_callbacks(om, n)]
    /\ UNCHANGED <<rest, pt, rm, trades, cop, sweep, bucket, callers, clock>>

\* cancel_all_pending(ticker) is called: get_orders returns the resting orders
CancelAllPending(ticker) ==
    /\ sweep.pc = "idle"
    /\ sweep' = [NoSweep EXCEPT !.pc = "cancelling",
                                !.todo = get_orders(rest, ticker, Len(rest.orders)),
                                !.ticker = ticker]
    /\ UNCHANGED <<rest, ws, om, pt, rm, trades, cop, bucket, callers, clock, hist>>

\* one iteration of the loop of cancel_all_orders, or its return
CancelNext ==
    /\ sweep.pc = "cancelling"
    /\ IF sweep.todo = <<>>
       THEN /\ sweep' = NoSweep
            /\ UNCHANGED <<rest, om>>
       ELSE LET order_id == Head(sweep.todo)
                result == cancel_result(rest, order_id)
            IN  /\ rest' = cancel_order(rest, order_id)
                /\ om' = cancel_order_local(om, order_id, result)
                /\ sweep' = cancel_all_step(sweep, result)
    /\ UNCHANGED <<ws, pt, rm, trades, cop, bucket, callers, clock, hist>>

\* the REST cancel of an iteration fails: cancel_order returns False, the loop goes on
CancelNextFails ==
    /\ sweep.pc = "cancelling"
    /\ sweep.todo # <<>>
    /\ sweep' = [cancel_all_step(sweep, FALSE) EXCEPT !.failed = TRUE]
    /\ UNCHANGED <<rest, ws, om, pt, rm, trades, cop, bucket, callers, clock, hist>>

\* the operator halts trading while a call has its risk check still ahead
OperatorHalts ==
    /\ \E t \in Trades : trades[t].pc \in {"idle", "start"}
    /\ ~rm.trading_halted
    /\ HaltTrading(<<"Testing halt">>)

InitEngine ==
    /\ \E bal \in EngineBalances :
          /\ rest = MockRestClient(bal)
          /\ rm = [RiskManager EXCEPT !.initial_balance = bal]
    /\ ws = {}
    /\ om = OrderManager
    /\ pt = PositionTracker
    /\ trades = [t \in Trades |-> Trade(Opportunity("T1", "yes", 45, 50), "idle", 0)]
    /\ cop = NoCall
    /\ sweep = NoSweep
    /\ bucket = TokenBucket
    /\ callers = <<>>
    /\ clock = [now |-> 0, day |-> 0]
    /\ hist = History

Next ==
    \/ \E t \in Trades, o \in EngineOpps : Call(t, o)
    \/ \E t \in Trades : GetBalanceReturns(t)
    \/ \E t \in Trades : RiskBalanceReturns(t)
    \/ \E t \in Trades : GetBalanceFails(t)
    \/ \E t \in Trades : CreateOrderReturns(t)
    \/ \E t \in Trades : CreateOrderFails(t)
    \/ \E t \in Trades : WaitSignalled(t)
    \/ \E t \in Trades : WaitTimeout(t)
    \/ \E t \in Trades : TimeoutGetOrderReturns(t)
    \/ \E t \in Trades : GetOrderFails(t)
    \/ \E t \in Trades : CancelReturns(t)
    \/ \E t \in Trades : CancelFails(t)
    \/ \E id \in 1..(2 * Cardinality(Trades)), c \in 1..params.max_position_size : ExchangeFill(id, c)
    \/ \E n \in ws : Deliver(n)
    \/ CancelAllPending("")
    \/ CancelNext
    \/ OperatorHalts

Spec == InitEngine /\ [][Next]_vars

----------------------------------------------------------------------------
(* OrderManager driven directly by a caller *)

MaxOrders == 2           \* orders created at the exchange
OrderIds == 1..(MaxOrders + 1)       \* the ids a caller passes, one of them unknown

\* place_limit_order is called for a buy of 1 and create_order returns
PlaceLimitOrder(ticker) ==
    /\ Len(rest.orders) < MaxOrders
    /\ rest' = create_order(rest, ticker, "yes", "buy", 45, 1)
    /\ om' = place_limit_order(om, Len(rest.orders) + 1, ticker, "yes", "buy", 45, 1)
    /\ UNCHANGED <<ws, pt, rm, trades, cop, sweep, bucket, callers, clock, hist>>

\* an order is created on the account by something other than this manager
ManualOrder(ticker) ==
    /\ Len(rest.orders) < MaxOrders
    /\ rest' = create_order(rest, ticker, "yes", "buy", 45, 1)
    /\ UNCHANGED <<ws, om, pt, rm, trades, cop, sweep, bucket, callers, clock, hist>>

\* OrderManager.cancel_order is called and the REST cancel returns
CancelOrder(order_id) ==
    LET result == cancel_result(rest, order_id) IN
    /\ rest' = cancel_order(rest, order_id)
    /\ om' = cancel_order_local(om, order_id, result)
    /\ hist' = [hist EXCEPT !.returned = IF result THEN "true" ELSE "false"]
    /\ UNCHANGED <<ws, pt, rm, trades, cop, sweep, bucket, callers, clock>>

\* OrderManager.cancel_order is called and the REST cancel fails
CancelOrderFails(order_id) ==
    /\ hist' = [hist EXCEPT !.returned = "false"]
    /\ UNCHANGED <<rest, ws, om, pt, rm, trades, cop, sweep, bucket, callers, clock>>

InitOrders ==
    /\ rest = MockRestClient(200)
    /\ InitCommon

\* cancel_all_orders sweeping the orders of a manager and of the account
NextOrders ==
    \/ \E k \in Tickers : PlaceLimitOrder(k)
    \/ ManualOrder("T2")
    \/ \E k \in {"", "T1"} : CancelAllPending(k)
    \/ CancelNext
    \/ CancelNextFails
    \/ \E id \in OrderIds : ExchangeFill(id, 1)
    \/ \E n \in ws : Deliver(n)

SpecOrders == InitOrders /\ [][NextOrders]_vars

----------------------------------------------------------------------------
(* OrderManager with observers registered, its orders cancelled one by one *)

MaxCallbacks == 2        \* observer callbacks registered

\* OrderManager.on_order_update is called with a callback that returns or raises
OnOrderUpdate(callback) ==
    /\ Len(om.order_callbacks) < MaxCallbacks
    /\ om' = on_order_update(om, callback)
    /\ UNCHANGED <<rest, ws, pt, rm, trades, cop, sweep, bucket, callers, clock, hist>>

NextManager ==
    \/ \E callback \in {"returns", "raises"} : OnOrderUpdate(callback)
    \/ PlaceLimitOrder("T1")
    \/ ManualOrder("T1")
    \/ \E id \in OrderIds : CancelOrder(id)
    \/ \E id \in OrderIds : CancelOrderFails(id)
    \/ \E id \in OrderIds : ExchangeFill(id, 1)
    \/ \E n \in ws : Deliver(n)

SpecManager == InitOrders /\ [][NextManager]_vars

----------------------------------------------------------------------------
(* Two execute_spread_trade calls running concurrently (asyncio.gather) on the
   shared OrderManager, PositionTracker and RiskManager *)

PairTrades == {1, 2}
PairBalance == 100       \* sizes every order at one contract
PairOpps == { Opportunity("T1", "yes", 45, 50), Opportunity("T2", "yes", 45, 50) }

\* the steps the event loop runs for one call, from its first await to its return
TradeStep(t) ==
    \/ GetBalanceReturns(t)
    \/ RiskBalanceReturns(t)
    \/ GetBalanceFails(t)
    \/ CreateOrderReturns(t)
    \/ CreateOrderFails(t)
    \/ WaitSignalled(t)
    \/ WaitTimeout(t)
    \/ TimeoutGetOrderReturns(t)
    \/ GetOrderFails(t)
    \/ CancelReturns(t)
    \/ CancelFails(t)

\* the two notifications of a fill reach the manager back to back, the Fill
\* first, as simulate_fill_after_delay sends them
DeliverFill(fill, update) ==
    /\ fill \in ws /\ fill.kind = "fill"
    /\ update \in ws /\ update.kind = "order_update"
    /\ update.order_id = fill.order_id
    /\ ws' = ws \ {fill, update}
    /\ om' = handle_order_update(handle_fill(om, fill), update)
    /\ hist' = [hist EXCEPT !.invoked = order_update_callbacks(om, update)]
    /\ UNCHANGED <<rest, pt, rm, trades, cop, sweep, bucket, callers, clock>>

InitPair ==
    /\ rest = MockRestClient(PairBalance)
    /\ rm = [RiskManager EXCEPT !.initial_balance = PairBalance]
    /\ ws = {}
    /\ om = OrderManager
    /\ pt = PositionTracker
    /\ trades = [t \in PairTrades |-> Trade(Opportunity("T1", "yes", 45, 50), "idle", 0)]
    /\ cop = NoCall
    /\ sweep = NoSweep
    /\ bucket = TokenBucket
    /\ callers = <<>>
    /\ clock = [now |-> 0, day |-> 0]
    /\ hist = History

NextPair ==
    \/ \E o \in PairOpps : Call(1, o)
    \/ Call(2, Opportunity("T1", "yes", 45, 50))
    \/ \E t \in PairTrades : GetBalanceReturns(t)
    \/ \E t \in PairTrades : RiskBalanceReturns(t)
    \/ \E t \in PairTrades : GetBalanceFails(t)
    \/ \E t \in PairTrades : CreateOrderReturns(t)
    \/ \E t \in PairTrades : CreateOrderFails(t)
    \/ \E t \in PairTrades : WaitSignalled(t)
    \/ \E t \in PairTrades : WaitTimeout(t)
    \/ \E t \in PairTrades : TimeoutGetOrderReturns(t)
    \/ \E t \in PairTrades : GetOrderFails(t)
    \/ \E t \in PairTrades : CancelReturns(t)
    \/ \E t \in PairTrades : CancelFails(t)
    \/ \E id \in 1..(2 * Cardinality(PairTrades)) : ExchangeFill(id, 1)
    \/ \E fill \in ws, update \in ws : DeliverFill(fill, update)

SpecPair == InitPair /\ [][NextPair]_vars

\* two calls on different tickers, as test_multiple_concurrent_trades makes them,
\* with requests that fail and with no notification ever delivered: the fills
\* of the exchange stay unseen and every wait runs into its timeout
NextLive ==
    \/ Call(1, Opportunity("T2", "yes", 45, 50))
    \/ Call(2, Opportunity("T1", "yes", 45, 50))
    \/ \E t \in PairTrades : GetBalanceReturns(t)
    \/ \E t \in PairTrades : RiskBalanceReturns(t)
    \/ \E t \in PairTrades : GetBalanceFails(t)
    \/ \E t \in PairTrades : CreateOrderReturns(t)
    \/ \E t \in PairTrades : CreateOrderFails(t)
    \/ \E t \in PairTrades : WaitTimeout(t)
    \/ \E t \in PairTrades : TimeoutGetOrderReturns(t)
    \/ \E t \in PairTrades : GetOrderFails(t)
    \/ \E t \in PairTrades : CancelReturns(t)
    \/ \E t \in PairTrades : CancelFails(t)
    \/ \E id \in 1..(2 * Cardinality(PairTrades)) : ExchangeFill(id, 1)

\* the event loop runs every task that is ready: a call whose REST request has
\* returned or failed, or whose wait has been signalled or has timed out, goes on
SpecPairLive ==
    InitPair /\ [][NextLive]_vars /\ \A t \in PairTrades : WF_vars(TradeStep(t))

----------------------------------------------------------------------------
(* PositionTracker fed with fills over several days by a caller that keeps its
   own account of the PnL realized on the current day *)

\* update_position is called with a fill; the caller adds what the position's
\* realized_pnl gained to its account of the day
RecordFill(ticker, side, qty_change, price) ==
    /\ pt' = update_position(pt, ticker, side, qty_change, price, clock.day)
    /\ \A k \in DOMAIN pt'.positions :
          /\ pt'.positions[k].quantity <= MaxQty
          /\ Abs(pt'.positions[k].realized_pnl) <= MaxPnl
    /\ hist' = [hist EXCEPT !.realized =
                    [day |-> clock.day,
                     sum |-> (IF @.day = clock.day THEN @.sum ELSE 0)
                             + (IF ticker \in DOMAIN pt.positions
                                THEN pt'.positions[ticker].realized_pnl
                                       - pt.positions[ticker].realized_pnl
                                ELSE 0)]]
    /\ UNCHANGED <<rest, ws, om, rm, trades, cop, sweep, bucket, callers, clock>>

NextLedger ==
    \/ \E k \in TrackerTickers, s \in Sides, q \in (-MaxQty..MaxQty), p \in Prices :
          RecordFill(k, s, q, p)
    \/ GetDailyPnl
    \/ Midnight

InitLedger ==
    /\ rest = MockRestClient(200)
    /\ InitCommon

SpecLedger == InitLedger /\ [][NextLedger]_vars

----------------------------------------------------------------------------
(* PositionTracker.sync_positions against an account whose exposure changes at
   the exchange, with a get_positions that can fail *)

\* sync_positions when get_positions raises: the handler logs and raises again
SyncPositionsFails ==
    /\ hist' = [hist EXCEPT !.returned = "raised"]
    /\ UNCHANGED <<rest, ws, om, pt, rm, trades, cop, sweep, bucket, callers, clock>>

\* the bot's own buys reach the tracker one contract at a time
NextSync ==
    \/ \E k \in TrackerTickers, s \in Sides, p \in Prices : UpdatePosition(k, s, 1, p)
    \/ \E k \in TrackerTickers, e \in (-MaxExposure..MaxExposure) : ApiPosition(k, e)
    \/ SyncPositions
    \/ SyncPositionsFails

SpecSync == InitLedger /\ [][NextSync]_vars

----------------------------------------------------------------------------
(* RiskManager.calculate_position_size called by itself, under the default
   StrategyParams, on balances set by set_balance *)

SizingParams ==
    [ max_position_size |-> 100, risk_per_trade_num |-> 1, risk_per_trade_den |-> 50 ]

SizingBalances == {0, 40, 100, 2250, 2300, 4500, 22500, 100000}
SizingBids == {0, 1, 10, 45}
SizingSpreads == {0, 2, 5, 6, 15}
SizingOpps == { Opportunity("T1", "yes", b, b + d) : b \in SizingBids, d \in SizingSpreads }

\* MockRestClient.set_balance
SetBalance(bal) ==
    /\ rest' = [rest EXCEPT !.balance = [balance |-> bal, available_balance |-> bal]]
    /\ UNCHANGED <<ws, om, pt, rm, trades, cop, sweep, bucket, callers, clock, hist>>

\* calculate_position_size(opportunity, available balance) is called and returns
CalculatePositionSize(opportunity) ==
    /\ cop' = [pc |-> "sized", opportunity |-> opportunity,
               size |-> position_size(SizingParams, opportunity,
                                      rest.balance.available_balance),
               reason |-> <<>>]
    /\ UNCHANGED <<rest, ws, om, pt, rm, trades, sweep, bucket, callers, clock, hist>>

InitSizing ==
    /\ \E bal \in SizingBalances : rest = MockRestClient(bal)
    /\ InitCommon

NextSizing ==
    \/ \E bal \in SizingBalances : SetBalance(bal)
    \/ \E o \in SizingOpps : CalculatePositionSize(o)

SpecSizing == InitSizing /\ [][NextSizing]_vars

----------------------------------------------------------------------------
(* Claims *)

\* C1: when the buy wait ends by timeout with 0 < k < N contracts filled, the
\* engine has requested the cancellation of the buy order by the time it places
\* a SELL order, and it records a tracked position of exactly k at the bid.
C1_PartialBuyCancelledBeforeSell ==
    \A t \in Trades :
        LET tr == trades[t]
            k == tr.buy_timeout_fill
            ticker == tr.opportunity.ticker
        IN  (k > 0 /\ k < tr.size) =>
              /\ (tr.result.sell_order_id # 0 =>
                    tr.result.buy_order_id \in tr.cancel_requested)
              /\ (tr.pc = "place" /\ tr.leg # "buy" =>
                    /\ ticker \in DOMAIN pt.positions
                    /\ pt.positions[ticker].quantity = k
                    /\ pt.positions[ticker].avg_entry_price = tr.opportunity.bid_price)

\* C2: when the sell wait times out with 0 < s < q contracts sold, the call
\* returns with the sell order's cancellation requested, PnL computed on s only,
\* a partial-sell message, and the tracked position still open.
C2_PartialSellReportedOnSoldPortion ==
    \A t \in Trades :
        LET tr == trades[t]
            s == tr.sell_timeout_fill
            ticker == tr.opportunity.ticker
        IN  (tr.pc = "done" /\ s > 0 /\ s < tr.filled_qty) =>
              /\ tr.result.sell_order_id \in tr.cancel_requested
              /\ tr.result.gross_pnl =
                    (tr.opportunity.ask_price - tr.opportunity.bid_price) * s
              /\ tr.result.fees = 2 * s
              /\ tr.result.error_message = <<"Partial sell">>
              /\ ticker \in DOMAIN pt.positions
              /\ pt.positions[ticker].quantity > 0

\* C3: every ManagedOrder of the order manager has
\* filled_count + remaining_count = count in every reachable state.
C3_FilledPlusRemainingIsCount ==
    \A id \in DOMAIN om.orders :
        om.orders[id].filled_count + om.orders[id].remaining_count = om.orders[id].count

\* a fill notification was applied to an order on top of the authoritative
\* filled count, and the order's counts still add up
C3_Witness ==
    \E id \in DOMAIN om.orders :
        /\ om.orders[id].filled_count > rest.orders[id].filled_count
        /\ om.orders[id].status = "cancelled"

\* C5: a ManagedOrder whose status is EXECUTED or CANCELLED keeps that status in
\* every later step, whatever notification, cancel or wait comes next.
C5_TerminalStatusIsFinal ==
    [][ \A id \in DOMAIN om.orders :
          om.orders[id].status \in {"executed", "cancelled", "canceled"} =>
              \/ om'.orders[id].status = om.orders[id].status
              \/ {om'.orders[id].status, om.orders[id].status} = {"cancelled", "canceled"} ]_vars

\* C9 as claimed: a returned call never raised, and if any of get_balance,
\* create_order, get_order or cancel_order failed during it, it returned
\* success = false with an error message.
C9_AnyFailureReported ==
    \A t \in Trades :
        LET tr == trades[t]
        IN  tr.pc = "done" =>
              /\ ~tr.raised
              /\ (tr.failed # {} =>
                    ~tr.result.success /\ tr.result.error_message # <<>>)

\* C9 as amended: a returned call never raised; if get_balance, create_order or
\* get_order failed during it, it returned success = false with an error message
\* (a failed cancel_order is absorbed as a False return and sets no message).
C9_RaisingFailureReported ==
    \A t \in Trades :
        LET tr == trades[t]
        IN  tr.pc = "done" =>
              /\ ~tr.raised
              /\ (tr.failed \cap {"get_balance", "create_order", "get_order"} # {} =>
                    ~tr.result.success /\ tr.result.error_message # <<>>)

\* a call returned after its get_order failed inside the partial-position exit
C9_Witness ==
    \E t \in Trades :
        /\ trades[t].pc = "done"
        /\ trades[t].leg = "exit"
        /\ "get_order" \in trades[t].failed

\* C10: a call whose size came out <= 0 or whose risk check was rejected returns
\* success = false with no buy order id, having made no create_order call and
\* left the order tables as they were; a rejection's message carries the reason.
C10_RejectedCallPlacesNoOrder ==
    \A t \in Trades :
        LET tr == trades[t]
        IN  (tr.pc = "done" /\ tr.failed = {} /\ (tr.size <= 0 \/ tr.risk_reason # <<>>)) =>
              /\ ~tr.result.success
              /\ tr.result.buy_order_id = 0
              /\ tr.creates = 0
              /\ Len(rest.orders) = tr.orders_before
              /\ DOMAIN om.orders = 1..tr.orders_before
              /\ (tr.risk_reason # <<>> =>
                    tr.result.error_message = <<"Risk check failed: ">> \o tr.risk_reason)

\* a call was rejected by the balance check of can_open_position and returned
C10_Witness ==
    \E t \in Trades :
        /\ trades[t].pc = "done"
        /\ trades[t].risk_reason = <<"Insufficient balance">>

\* C4: every tracked position has status CLOSED if and only if its quantity
\* is 0, after any sequence of update_position, sync_positions, update_price.
C4_ClosedIffZeroQuantity ==
    \A k \in DOMAIN pt.positions :
        (pt.positions[k].status = "closed") <=> (pt.positions[k].quantity = 0)

\* C6: once the daily-loss check of can_open_position has set the halt, trading
\* stays halted and can_open_position returns false until reset_daily_limits,
\* whatever halt_trading and resume_trading calls are made in between.
C6_DailyLossHaltHolds ==
    hist.daily_latched =>
        /\ rm.trading_halted
        /\ (cop.pc = "returned" => cop.reason # <<"OK">>)

\* C7: the bucket's tokens stay within 0..capacity in every reachable state,
\* under any interleaving of acquire and try_acquire callers.
C7_TokensWithinCapacity ==
    bucket.tokens >= 0 /\ bucket.tokens <= BucketCapacity

\* C8: while an acquire call is between its refill and its debit (suspended in
\* its sleep), no other call takes tokens out of that bucket.
C8_NoSpendDuringAcquire ==
    [][ \A c \in Callers :
          (callers[c].pc = "sleeping" /\ callers'[c].pc = "sleeping")
              => bucket'.tokens >= bucket.tokens ]_vars

\* C11: a call whose buy wait and whose sell wait both returned FILLED returns
\* success with both order ids, entry at the bid, exit at the ask, the whole size N
\* filled, net PnL (ask - bid) * N - 2 * N, and the tracked position at quantity 0.
C11_RoundTripResult ==
    \A t \in Trades :
        LET tr == trades[t]
            r == tr.result
            o == tr.opportunity
        IN  (tr.pc = "done" /\ r.buy_fill_result = "filled" /\ r.sell_fill_result = "filled") =>
              /\ r.success
              /\ r.buy_order_id # 0 /\ r.sell_order_id # 0
              /\ r.entry_price = o.bid_price /\ r.exit_price = o.ask_price
              /\ tr.size > 0 /\ r.quantity_filled = tr.size
              /\ r.net_pnl = (o.ask_price - o.bid_price) * tr.size - 2 * tr.size
              /\ o.ticker \in DOMAIN pt.positions
              /\ pt.positions[o.ticker].quantity = 0

\* a round trip of two contracts bought at 45 and sold at 50 has returned
C11_Witness ==
    \E t \in Trades :
        /\ trades[t].pc = "done"
        /\ trades[t].result.buy_fill_result = "filled"
        /\ trades[t].result.sell_fill_result = "filled"
        /\ trades[t].result.net_pnl = 6

\* C12: a call whose buy leg ended without a fill (TIMEOUT with zero fill read
\* back after the cancel, CANCELLED, or ERROR) returns success = false with that
\* outcome as buy_fill_result, no tracked position for the ticker and no SELL order.
C12_BuyWithoutFillLeavesNothing ==
    \A t \in Trades :
        LET tr == trades[t]
            r == tr.result
        IN  (tr.pc = "done"
             /\ \/ r.buy_fill_result \in {"cancelled", "error"}
                \/ r.buy_fill_result = "timeout" /\ tr.cancel_fill = 0) =>
              /\ ~r.success
              /\ tr.leg = "buy"
              /\ tr.opportunity.ticker \notin DOMAIN pt.positions
              /\ r.sell_order_id = 0
              /\ tr.creates = 1
              /\ Len(rest.orders) = tr.orders_before + 1

\* a call returned after its buy timed out and the cancelled order showed no fill
C12_Witness ==
    \E t \in Trades :
        /\ trades[t].pc = "done"
        /\ trades[t].result.buy_fill_result = "timeout"
        /\ trades[t].cancel_fill = 0

\* C13: once the buy wait has timed out with k > 0 contracts filled, the SELL the
\* call places is at the ask, for exactly k contracts, and waited on for twice
\* order_timeout_seconds; if that wait returns FILLED the position ends at 0 and
\* gross PnL, fees and net PnL are those of k contracts.
C13_PartialBuyExit ==
    \A t \in Trades :
        LET tr == trades[t]
            r == tr.result
            o == tr.opportunity
            k == tr.buy_timeout_fill
        IN  (k > 0 /\ r.sell_order_id # 0) =>
              /\ rest.orders[r.sell_order_id].price = o.ask_price
              /\ rest.orders[r.sell_order_id].count = k
              /\ tr.wait_timeout = 2 * params.order_timeout_seconds
              /\ (tr.pc = "done" /\ r.sell_fill_result = "filled" =>
                    /\ pt.positions[o.ticker].quantity = 0
                    /\ r.gross_pnl = (o.ask_price - o.bid_price) * k
                    /\ r.fees = 2 * k
                    /\ r.net_pnl = r.gross_pnl - r.fees)

\* C14: a call whose sell leg ended with TIMEOUT and zero sell fill, CANCELLED or
\* ERROR returns success = false with a "position still open" message, the tracked
\* position still open at the quantity the buy leg recorded (none tracked when it
\* recorded 0), and only its two orders placed.
C14_SellWithoutFillKeepsPosition ==
    \A t \in Trades :
        LET tr == trades[t]
            r == tr.result
            o == tr.opportunity
        IN  (tr.pc = "done" /\ tr.leg = "sell"
             /\ \/ r.sell_fill_result \in {"cancelled", "error"}
                \/ r.sell_fill_result = "timeout" /\ tr.cancel_fill = 0) =>
              /\ ~r.success
              /\ r.error_message # <<>>
              /\ r.error_message[Len(r.error_message)] \in
                    {" - position still open", "Sell order timed out - position still open"}
              /\ r.quantity_filled = tr.filled_qty
              /\ IF o.ticker \in DOMAIN pt.positions
                 THEN /\ pt.positions[o.ticker].quantity = tr.filled_qty
                      /\ pt.positions[o.ticker].status = "open"
                 ELSE tr.filled_qty = 0
              /\ tr.creates = 2
              /\ Len(rest.orders) = tr.orders_before + 2

\* a call returned after its sell timed out and the cancelled order showed no fill
C14_Witness ==
    \E t \in Trades :
        /\ trades[t].pc = "done"
        /\ trades[t].leg = "sell"
        /\ trades[t].result.sell_fill_result = "timeout"
        /\ trades[t].cancel_fill = 0

\* C15: every TradeResult has net_pnl = gross_pnl - fees; when PnL was computed for
\* q contracts (full sell, partial sell after the cancel, or partial-position exit)
\* gross_pnl = (exit_price - entry_price) * q and fees = 2 * q; and entry 45,
\* exit 50, q = 10 gives 50, 20 and 30.
C15_PnlArithmetic ==
    /\ \A t \in Trades :
          LET tr == trades[t]
              r == tr.result
              q == IF tr.leg = "exit" THEN tr.quantity
                   ELSE IF r.success THEN tr.filled_qty
                   ELSE tr.cancel_fill
          IN  /\ r.net_pnl = r.gross_pnl - r.fees
              /\ (tr.pc = "done" /\ r.exit_price # 0 =>
                    /\ r.gross_pnl = (r.exit_price - r.entry_price) * q
                    /\ r.fees = 2 * q)
              /\ (tr.pc = "done" /\ r.exit_price = 0 => r.gross_pnl = 0 /\ r.fees = 0)
    /\ LET r10 == calculate_trade_pnl(
                      [TradeResult("T1") EXCEPT !.entry_price = 45, !.exit_price = 50], 10)
       IN  r10.gross_pnl = 50 /\ r10.fees = 20 /\ r10.net_pnl = 30

\* a call returned with PnL computed on the part of its sell that had filled
C15_Witness ==
    \E t \in Trades :
        /\ trades[t].pc = "done"
        /\ trades[t].result.error_message = <<"Partial sell">>
        /\ trades[t].result.fees = 2

\* C16: can_open_position applies its checks in the order halted, open-position
\* count >= max_concurrent_positions, non-zero position on the ticker, size >
\* max_position_size (before its balance read), then bid_price * size > available
\* balance, daily loss limit (after it); it returns the reason of the first check
\* that fails and "OK" only when none does; while halted it rejects every call.
C16_FirstFailingCheckWins ==
  [][
    LET check(reason) ==
            CASE reason = <<"OK">> -> 0
              [] reason[1] = "Trading halted: " -> 1
              [] reason[1] = "Max concurrent positions reached" -> 2
              [] reason[1] = "Already have position in " -> 3
              [] reason[1] = "Size exceeds max position size" -> 4
              [] reason[1] = "Insufficient balance" -> 5
              [] reason[1] = "Daily loss" -> 6
              [] OTHER -> 7
        open_count == Cardinality({k \in DOMAIN pt.positions : pt.positions[k].status = "open"})
        first_before(o, n) ==
            IF rm.trading_halted THEN 1
            ELSE IF open_count >= params.max_concurrent_positions THEN 2
            ELSE IF o.ticker \in DOMAIN pt.positions /\ pt.positions[o.ticker].quantity # 0 THEN 3
            ELSE IF n > params.max_position_size THEN 4
            ELSE 0
        today_pnl == IF clock.day > pt.daily_pnl_reset THEN 0 ELSE pt.daily_pnl
        first_after ==
            IF cop.opportunity.bid_price * cop.size > rest.balance.available_balance THEN 5
            ELSE IF today_pnl < 0
                    /\ -today_pnl >= (rm.initial_balance * params.daily_loss_limit_num)
                                          \div params.daily_loss_limit_den
                 THEN 6
            ELSE 0
    IN  /\ \A o \in PortfolioOpps, n \in 1..(params.max_position_size + 1) :
             CanOpenCall(o, n) =>
                 IF first_before(o, n) = 0
                 THEN cop'.pc = "await"
                 ELSE /\ cop'.pc = "returned"
                      /\ check(cop'.reason) = first_before(o, n)
        /\ CanOpenReturn =>
              /\ cop'.pc = "returned"
              /\ check(cop'.reason) = first_after
  ]_vars

\* a call made while trading was halted has returned the halt as its reason
C16_Witness ==
    /\ rm.trading_halted
    /\ cop.pc = "returned"
    /\ cop.reason = <<"Trading halted: ", "Testing halt">>

\* C17: whenever trading is halted and the daily-loss check has not latched since
\* the last reset (so the halt came from halt_trading), resume_trading clears the
\* halt, whatever the reason text.
C17_ResumeClearsManualHalt ==
    (rm.trading_halted /\ ~hist.daily_latched) => ~resume_trading(rm).trading_halted

\* C18: when wait_for_fill is woken by its order's fill event, the FillResult it
\* returns is FILLED if the order read from the API is EXECUTED, PARTIAL if it is
\* cancelled with filled_count > 0 and CANCELLED if it is cancelled with none.
C18_WokenClassification ==
    [][ \A t \in Trades :
          WaitSignalled(t) =>
              LET order == rest.orders[trades[t].order_id]
                  fill_result == IF trades[t].leg = "buy"
                                 THEN trades'[t].result.buy_fill_result
                                 ELSE trades'[t].result.sell_fill_result
              IN  /\ order.status = "executed" => fill_result = "filled"
                  /\ order.status = "canceled" /\ order.filled_count > 0 =>
                        fill_result = "partial"
                  /\ order.status = "canceled" /\ order.filled_count = 0 =>
                        fill_result = "cancelled" ]_vars

\* a buy wait was woken by a cancel after one contract had filled, and returned PARTIAL
C18_Witness ==
    \E t \in Trades :
        /\ trades[t].result.buy_fill_result = "partial"
        /\ trades[t].buy_timeout_fill = -1
        /\ rest.orders[trades[t].result.buy_order_id].status = "canceled"
        /\ rest.orders[trades[t].result.buy_order_id].filled_count > 0

\* C19: when the timeout of wait_for_fill elapses, its one read of the order gives
\* PARTIAL if filled_count > 0 and TIMEOUT otherwise, and neither the timeout nor
\* the read changes the order at the exchange or its status in the manager.
C19_TimeoutClassification ==
    [][ \A t \in Trades :
          /\ WaitTimeout(t) => rest' = rest /\ om' = om
          /\ TimeoutGetOrderReturns(t) =>
                LET id == trades[t].order_id
                    fill_result == IF trades[t].leg = "buy"
                                   THEN trades'[t].result.buy_fill_result
                                   ELSE trades'[t].result.sell_fill_result
                IN  /\ fill_result = IF rest.orders[id].filled_count > 0
                                     THEN "partial" ELSE "timeout"
                    /\ rest' = rest
                    /\ om'.orders[id].status = om.orders[id].status
                    /\ trades'[t].cancel_requested = trades[t].cancel_requested ]_vars

\* a sell wait timed out with one contract sold and the order still resting
C19_Witness ==
    \E t \in Trades :
        /\ trades[t].sell_timeout_fill = 1
        /\ trades[t].result.sell_fill_result = "partial"
        /\ rest.orders[trades[t].result.sell_order_id].status = "resting"

\* C20: a wait_for_fill that returned ERROR was given an order unknown to the
\* manager or not found at the API; and for every order id not in the manager's
\* table wait_for_fill returns ERROR before it suspends or calls the API.
C20_ErrorOnlyForMissingOrder ==
    /\ \A t \in Trades :
          /\ trades[t].result.buy_fill_result = "error" =>
                \/ trades[t].result.buy_order_id \notin DOMAIN om.orders
                \/ trades[t].result.buy_order_id \notin DOMAIN rest.orders
          /\ trades[t].result.sell_fill_result = "error" =>
                \/ trades[t].result.sell_order_id \notin DOMAIN om.orders
                \/ trades[t].result.sell_order_id \notin DOMAIN rest.orders
    /\ \A id \in 1..(2 * Cardinality(Trades) + 1) :
          id \notin DOMAIN om.orders => wait_for_fill_entry(om, id) = "error"

\* C28: once the buy wait timed out and the cancel took effect, the engine's
\* choice agrees with the filled_count the exchange holds for the buy order: a
\* fill that landed before the cancel is recorded as the quantity to exit, and
\* "timed out with no fill" is reported only when that filled_count is 0.
C28_TimeoutChoiceMatchesExchange ==
    \A t \in Trades :
        LET tr == trades[t]
            id == tr.result.buy_order_id
        IN  (/\ tr.cancel_fill >= 0
             /\ id \in tr.cancel_requested
             /\ "cancel_order" \notin tr.failed
             /\ rest.orders[id].status = "canceled") =>
                IF rest.orders[id].filled_count > 0
                THEN /\ tr.result.quantity_filled = rest.orders[id].filled_count
                     /\ tr.result.error_message # <<"Buy order timed out with no fill">>
                ELSE tr.result.error_message = <<"Buy order timed out with no fill">>

\* C29: when execute_spread_trade has returned, the tracked quantity on its
\* ticker equals the contracts bought minus the contracts sold by the call's
\* orders according to the filled counts of the exchange.
C29_TrackedQuantityMatchesExchange ==
    \A t \in Trades :
        LET tr == trades[t]
            ticker == tr.opportunity.ticker
            filled(id) == IF id \in DOMAIN rest.orders THEN rest.orders[id].filled_count ELSE 0
            tracked == IF ticker \in DOMAIN pt.positions
                       THEN pt.positions[ticker].quantity ELSE 0
        IN  tr.pc = "done" =>
                tracked = filled(tr.result.buy_order_id) - filled(tr.result.sell_order_id)

\* C30: when execute_spread_trade has returned, none of the orders it placed is
\* resting at the exchange, and each of its orders that did not execute in full
\* has had its cancellation requested by the call.
C30_NoOrderLeftResting ==
    \A t \in Trades :
        LET tr == trades[t] IN
        tr.pc = "done" =>
            \A id \in {tr.result.buy_order_id, tr.result.sell_order_id} \cap DOMAIN rest.orders :
                /\ rest.orders[id].status # "resting"
                /\ rest.orders[id].status # "executed" => id \in tr.cancel_requested

\* C21: cancel_order never raises; it returns false and changes no local order
\* when the order id is unknown to the manager, when the order is already
\* terminal, or when the REST cancel fails; when it returns true the local order
\* is cancelled with its fill event set, and a second cancel_order on the same
\* id returns false and changes nothing.
C21_CancelOrderContract ==
    [][ /\ \A id \in OrderIds :
              CancelOrder(id) =>
                  /\ hist'.returned \in {"true", "false"}
                  /\ (\/ id \notin DOMAIN om.orders
                      \/ om.orders[id].status \in {"executed", "canceled", "cancelled"}) =>
                          (hist'.returned = "false" /\ om' = om)
                  /\ hist'.returned = "true" =>
                          /\ id \in DOMAIN om'.orders
                          /\ om'.orders[id].status = "cancelled"
                          /\ om'.fill_events[id]
                          /\ ~cancel_result(rest', id)
                          /\ cancel_order_local(om', id, cancel_result(rest', id)) = om'
        /\ \A id \in OrderIds :
              CancelOrderFails(id) => (hist'.returned = "false" /\ om' = om)
      ]_vars

\* C24: every order update and every fill notification for a known order invokes
\* all registered observer callbacks, raising ones included, leaves the order
\* with the counts and status the notification carries, and sets the fill event
\* when the status is terminal.
C24_ObserversNotified ==
    [][ \A n \in ws :
          (Deliver(n) /\ n.order_id \in DOMAIN om.orders) =>
              /\ hist'.invoked = [i \in 1..Len(om.order_callbacks) |-> i]
              /\ n.kind = "order_update" =>
                    /\ om'.orders[n.order_id].filled_count = n.filled_count
                    /\ om'.orders[n.order_id].remaining_count = n.remaining_count
                    /\ om'.orders[n.order_id].status = n.status
              /\ om'.orders[n.order_id].status \in {"executed", "canceled"} =>
                    om'.fill_events[n.order_id]
      ]_vars

\* C22 as stated: cancel_all_orders lists exactly the resting orders of the
\* filter, cancels them one after the other going on past a cancel that fails,
\* counts exactly the cancels that took effect, touches no order of another
\* ticker, and returns with get_active_orders empty when it had no filter and no
\* cancel failed.
C22_CancelAllLeavesNothingActive ==
    [][ /\ \A k \in {"", "T1"} :
              CancelAllPending(k) =>
                  {sweep'.todo[i] : i \in 1..Len(sweep'.todo)} =
                      {id \in DOMAIN rest.orders :
                          /\ rest.orders[id].status = "resting"
                          /\ (k = "" \/ rest.orders[id].ticker = k)}
        /\ (CancelNext /\ sweep.todo # <<>>) =>
              LET id == Head(sweep.todo)
                  took_effect == /\ rest.orders[id].status = "resting"
                                 /\ rest'.orders[id].status = "canceled"
              IN  /\ sweep'.todo = Tail(sweep.todo)
                  /\ sweep'.cancelled = sweep.cancelled + (IF took_effect THEN 1 ELSE 0)
                  /\ sweep.ticker # "" => rest.orders[id].ticker = sweep.ticker
                  /\ \A j \in DOMAIN rest.orders \ {id} : rest'.orders[j] = rest.orders[j]
                  /\ \A j \in DOMAIN om.orders \ {id} : om'.orders[j] = om.orders[j]
        /\ CancelNextFails =>
              /\ sweep'.todo = Tail(sweep.todo)
              /\ sweep'.cancelled = sweep.cancelled
        /\ (CancelNext /\ sweep.todo = <<>> /\ sweep.ticker = "" /\ ~sweep.failed) =>
              get_active_orders(om', "") = {}
      ]_vars

\* C22 amended: the same, but what an unfiltered call without failure leaves is
\* that every order it cancels is not resting at the exchange and, if the manager
\* knows it, cancelled locally with its fill event set.
C22_CancelAllCancelsListed ==
    [][ /\ \A k \in {"", "T1"} :
              CancelAllPending(k) =>
                  {sweep'.todo[i] : i \in 1..Len(sweep'.todo)} =
                      {id \in DOMAIN rest.orders :
                          /\ rest.orders[id].status = "resting"
                          /\ (k = "" \/ rest.orders[id].ticker = k)}
        /\ (CancelNext /\ sweep.todo # <<>>) =>
              LET id == Head(sweep.todo)
                  took_effect == /\ rest.orders[id].status = "resting"
                                 /\ rest'.orders[id].status = "canceled"
              IN  /\ sweep'.todo = Tail(sweep.todo)
                  /\ sweep'.cancelled = sweep.cancelled + (IF took_effect THEN 1 ELSE 0)
                  /\ sweep.ticker # "" => rest.orders[id].ticker = sweep.ticker
                  /\ \A j \in DOMAIN rest.orders \ {id} : rest'.orders[j] = rest.orders[j]
                  /\ \A j \in DOMAIN om.orders \ {id} : om'.orders[j] = om.orders[j]
                  /\ rest'.orders[id].status # "resting"
                  /\ (took_effect /\ id \in DOMAIN om.orders) =>
                        (om'.orders[id].status = "cancelled" /\ om'.fill_events[id])
        /\ CancelNextFails =>
              /\ sweep'.todo = Tail(sweep.todo)
              /\ sweep'.cancelled = sweep.cancelled
      ]_vars

\* an unfiltered call that cancelled two orders is about to return its count
C22_Witness ==
    /\ sweep.pc = "cancelling"
    /\ sweep.todo = <<>>
    /\ sweep.ticker = ""
    /\ ~sweep.failed
    /\ sweep.cancelled = 2

\* C23: when create_order fails, place_limit_order has made that one attempt,
\* passes the failure on and leaves the manager's orders and fill events as they
\* were; when it succeeds, exactly one ManagedOrder is added, resting, with
\* filled_count 0 and remaining_count = count, with its fill event unset.
C23_PlaceLimitOrderContract ==
    [][ \A t \in Trades :
          /\ CreateOrderFails(t) =>
                /\ om' = om
                /\ rest' = rest
                /\ trades'[t].creates = trades[t].creates + 1
                /\ "create_order" \in trades'[t].failed
                /\ SubSeq(trades'[t].result.error_message,
                          Len(trades'[t].result.error_message), 
                          Len(trades'[t].result.error_message)) = ApiError
          /\ CreateOrderReturns(t) =>
                LET id == Len(rest.orders) + 1 IN
                /\ trades'[t].creates = trades[t].creates + 1
                /\ Len(rest'.orders) = Len(rest.orders) + 1
                /\ DOMAIN om'.orders = DOMAIN om.orders \cup {id}
                /\ id \notin DOMAIN om.orders
                /\ \A j \in DOMAIN om.orders :
                      /\ om'.orders[j] = om.orders[j]
                      /\ om'.fill_events[j] = om.fill_events[j]
                /\ om'.orders[id].status = "resting"
                /\ om'.orders[id].filled_count = 0
                /\ om'.orders[id].remaining_count = order_count(trades[t])
                /\ om'.orders[id].count = order_count(trades[t])
                /\ om'.fill_events[id] = FALSE
      ]_vars

\* the create_order of a sell failed: the call returned with the buy order the
\* only one in the manager's table
C23_Witness ==
    \E t \in Trades :
        /\ trades[t].pc = "done"
        /\ "create_order" \in trades[t].failed
        /\ trades[t].creates = 2
        /\ trades[t].result.sell_order_id = 0
        /\ DOMAIN om.orders = {trades[t].result.buy_order_id}

\* C27: with two calls running concurrently on the shared objects, every call
\* that was made returns in the end, with a TradeResult for its own ticker, also
\* when the other call fails, is rejected or times out and when no notification
\* is ever delivered.
C27_EveryCallReturns ==
    \A t \in PairTrades :
        (trades[t].pc # "idle") ~>
            (/\ trades[t].pc = "done"
             /\ trades[t].result.ticker = trades[t].opportunity.ticker)

\* both calls have returned, each for its own ticker: one after a request of
\* its own failed, the other after its buy order, filled at the exchange
\* with the notifications never delivered, ran into the timeout
C27_Witness ==
    /\ \A t \in PairTrades :
           /\ trades[t].pc = "done"
           /\ trades[t].result.ticker = trades[t].opportunity.ticker
    /\ trades[1].result.ticker # trades[2].result.ticker
    /\ trades[1].failed # {}
    /\ trades[2].result.buy_fill_result = "partial"
    /\ trades[2].wait_timeout > 0
    /\ ws # {}

\* C25: the duplicate-exposure check of can_open_position looks at the tracked
\* positions only: while another call's buy order on the same ticker is live
\* and no position is tracked for the ticker yet, a call whose other checks
\* pass is not turned away and goes on to the balance check and the placement;
\* two live buy orders of different calls on one ticker are reachable.
C25_DuplicateCheckSeesOnlyPositions ==
    [][\A t \in PairTrades :
          LET tr == trades[t]
              ticker == tr.opportunity.ticker
              held == /\ ticker \in DOMAIN pt.positions
                      /\ pt.positions[ticker].quantity > 0
              live_buy == \E u \in PairTrades \ {t} :
                             /\ trades[u].result.buy_order_id \in DOMAIN rest.orders
                             /\ rest.orders[trades[u].result.buy_order_id].ticker = ticker
                             /\ rest.orders[trades[u].result.buy_order_id].status = "resting"
          IN  ( /\ GetBalanceReturns(t)
                /\ live_buy
                /\ ~held
                /\ ~rm.trading_halted
                /\ get_position_count(pt) < params.max_concurrent_positions
                /\ trades'[t].size > 0
                /\ trades'[t].size <= params.max_position_size )
              => /\ trades'[t].pc = "risk"
                 /\ trades'[t].risk_reason = <<>>
    ]_vars

\* two calls on one ticker have each passed the risk check and placed a buy
\* order, and both orders are resting at the exchange
C25_Witness ==
    /\ trades[1].opportunity.ticker = trades[2].opportunity.ticker
    /\ \A t \in PairTrades :
           /\ trades[t].pc = "wait"
           /\ trades[t].leg = "buy"
           /\ trades[t].order_id \in DOMAIN rest.orders
           /\ rest.orders[trades[t].order_id].action = "buy"
           /\ rest.orders[trades[t].order_id].status = "resting"
           /\ rest.orders[trades[t].order_id].ticker = trades[t].opportunity.ticker
    /\ trades[1].order_id # trades[2].order_id

\* C26: the notifications of an order that reached a terminal state, delivered
\* at any time after the order was placed and while other calls are suspended
\* in their own waits, set the fill event of that order and of no other; the
\* call waiting on a set event goes on by reading the order back, never by the
\* timeout, and a call waiting on another order is left where it is.
C26_TerminalNotificationWakesItsWait ==
    [][/\ \A fill \in ws, update \in ws :
            ( /\ DeliverFill(fill, update)
              /\ update.status \in {"executed", "canceled"}
              /\ update.order_id \in DOMAIN om.orders )
            => /\ om'.fill_events[update.order_id]
               /\ \A id \in DOMAIN om.fill_events \ {update.order_id} :
                      om'.fill_events[id] = om.fill_events[id]
               /\ trades' = trades
       /\ \A t \in PairTrades :
            ( /\ trades[t].pc = "wait"
              /\ om.fill_events[trades[t].order_id]
              /\ trades'[t] # trades[t] )
            => /\ trades'[t].pc # "timedout"
               /\ "timeout" # ( IF trades[t].leg = "buy"
                                 THEN trades'[t].result.buy_fill_result
                                 ELSE trades'[t].result.sell_fill_result )
    ]_vars

\* both calls are suspended in wait_for_fill; the first call's order has been
\* filled and its notifications delivered, so its event is set, while the
\* second call's order rests and its event is not set
C26_Witness ==
    /\ \A t \in PairTrades : trades[t].pc = "wait"
    /\ trades[1].order_id # trades[2].order_id
    /\ rest.orders[trades[1].order_id].status = "executed"
    /\ om.fill_events[trades[1].order_id]
    /\ rest.orders[trades[2].order_id].status = "resting"
    /\ ~om.fill_events[trades[2].order_id]
    /\ ws = {}

\* C31: the number of tickers with a non-zero tracked quantity never exceeds
\* max_concurrent_positions when all positions are opened by execute_spread_trade,
\* also with several calls running concurrently.
C31_OpenTickersWithinLimit ==
    Cardinality({k \in DOMAIN pt.positions : pt.positions[k].quantity # 0})
        <= params.max_concurrent_positions

\* C32: in every reachable state a ManagedOrder with status executed has
\* remaining_count = 0 and filled_count = count, also when a fill notification
\* arrives after wait_for_fill wrote back the counts of the exchange.
C32_ExecutedHasNothingRemaining ==
    \A id \in DOMAIN om.orders :
        om.orders[id].status = "executed" =>
            /\ om.orders[id].remaining_count = 0
            /\ om.orders[id].filled_count = om.orders[id].count

\* C33: every order the engine places has 1 <= price <= 99 and count > 0, and a
\* call whose opportunity would need an order outside these limits is turned
\* away before it makes any external call, get_balance included.
C33_OrdersWellFormed ==
    /\ \A id \in DOMAIN rest.orders :
          /\ rest.orders[id].price >= 1
          /\ rest.orders[id].price <= 99
          /\ rest.orders[id].count > 0
    /\ \A t \in Trades :
          (trades[t].opportunity.bid_price < 1 \/ trades[t].opportunity.ask_price > 99) =>
              trades[t].pc \in {"idle", "done"}

\* C34: for every opportunity with bid_price > 0 and every balance, the size
\* calculate_position_size returns is affordable: bid_price * size <= balance.
C34_SizeIsAffordable ==
    (cop.pc = "sized" /\ cop.opportunity.bid_price > 0) =>
        cop.opportunity.bid_price * cop.size <= rest.balance.available_balance

\* C35: calculate_position_size returns 0 when bid_price <= 0 and otherwise
\* max(1, s), where base = floor(balance * risk_per_trade_pct) div bid_price is
\* multiplied by min(2.0, 1 + (spread_cents - 2)/10) and truncated when
\* spread_cents - 2 > 0, s is the smaller of that and max_position_size, and s
\* is replaced by balance div bid_price when bid_price * s > balance; the result
\* is within 1..max_position_size whenever bid_price > 0.
C35_SizeFormula ==
    cop.pc = "sized" =>
        LET balance == rest.balance.available_balance
            bid == cop.opportunity.bid_price
            profit == cop.opportunity.spread_cents - 2
            base == ((balance * SizingParams.risk_per_trade_num)
                        \div SizingParams.risk_per_trade_den) \div bid
            scaled == IF profit > 0 THEN (base * Min(20, 10 + profit)) \div 10 ELSE base
            s == Min(scaled, SizingParams.max_position_size)
            s2 == IF bid * s > balance THEN balance \div bid ELSE s
        IN  IF bid <= 0 THEN cop.size = 0
            ELSE /\ cop.size = Max(1, s2)
                 /\ cop.size >= 1
                 /\ cop.size <= SizingParams.max_position_size

\* C36: update_position(ticker, side, q, p) on an untracked ticker creates a
\* position of quantity q at average p when q > 0 and changes nothing when
\* q <= 0; on a tracked ticker, q > 0 on the same side sets the average to
\* (oldAvg*oldQty + p*q) div (oldQty + q) and the quantity to oldQty + q, and
\* q < 0 or q > 0 on the opposite side takes r = min(|q|, quantity) off the
\* quantity and adds (p - avg)*r for YES, (avg - p)*r for NO, to the position's
\* realized PnL and to the daily PnL of the current day; no quantity is negative.
\* Stated for the call made in every reachable state of the tracker with every
\* argument.
C36_UpdatePositionContract ==
    \A k \in TrackerTickers, s \in Sides, q \in (-MaxQty..MaxQty), p \in Prices :
        LET after == update_position(pt, k, s, q, p, clock.day) IN
        IF k \notin DOMAIN pt.positions
        THEN IF q > 0
             THEN /\ k \in DOMAIN after.positions
                  /\ after.positions[k].side = s
                  /\ after.positions[k].quantity = q
                  /\ after.positions[k].avg_entry_price = p
             ELSE after = pt
        ELSE LET old == pt.positions[k]
                 new == after.positions[k]
                 r == Min(Abs(q), old.quantity)
                 pnl == IF old.side = "yes" THEN (p - old.avg_entry_price) * r
                        ELSE (old.avg_entry_price - p) * r
             IN  /\ new.quantity >= 0
                 /\ (q > 0 /\ old.side = s) =>
                       /\ new.quantity = old.quantity + q
                       /\ new.avg_entry_price =
                             (old.avg_entry_price * old.quantity + p * q)
                                 \div (old.quantity + q)
                       /\ new.realized_pnl = old.realized_pnl
                       /\ after.daily_pnl = pt.daily_pnl
                 /\ (q < 0 \/ (q > 0 /\ old.side # s)) =>
                       /\ new.quantity = old.quantity - r
                       /\ new.avg_entry_price = old.avg_entry_price
                       /\ new.realized_pnl = old.realized_pnl + pnl
                       /\ after.daily_pnl = daily_reset(pt, clock.day).daily_pnl + pnl

\* a position was built by two additions at different prices and then reduced
\* at a profit: the average is the truncated weighted mean and the profit is in
\* the position's realized PnL and in the daily PnL
C36_Witness ==
    \E k \in DOMAIN pt.positions :
        /\ pt.positions[k].avg_entry_price = 47
        /\ pt.positions[k].quantity = 1
        /\ pt.positions[k].realized_pnl = 3
        /\ pt.daily_pnl = 3

\* C37: from every reachable state of the tracker, adding (q1, p1) and then
\* (q2, p2) to a ticker that is untracked or holds a position on that side
\* leaves the same avg_entry_price as the one combined addition of
\* (q1 + q2, (p1*q1 + p2*q2) div (q1 + q2)).
C37_AverageIsAssociative ==
    \A k \in TrackerTickers, s \in Sides, q1 \in 1..MaxQty, q2 \in 1..MaxQty,
       p1 \in Prices, p2 \in Prices :
        (k \in DOMAIN pt.positions => pt.positions[k].side = s) =>
            LET first == update_position(pt, k, s, q1, p1, clock.day)
                twice == update_position(first, k, s, q2, p2, clock.day)
                once == update_position(pt, k, s, q1 + q2,
                                        (p1 * q1 + p2 * q2) \div (q1 + q2), clock.day)
            IN  twice.positions[k].avg_entry_price = once.positions[k].avg_entry_price

\* C38: in every reachable state every tracked position's unrealized_pnl is
\* (current_price - avg_entry_price) * quantity on the YES side and
\* (avg_entry_price - current_price) * quantity on the NO side.
C38_UnrealizedPnlIsCurrent ==
    \A k \in DOMAIN pt.positions :
        LET p == pt.positions[k]
        IN  p.unrealized_pnl =
                IF p.side = "yes"
                THEN (p.current_price - p.avg_entry_price) * p.quantity
                ELSE (p.avg_entry_price - p.current_price) * p.quantity

\* C39: a sync_positions whose get_positions succeeds leaves, for every ticker
\* the API lists, the tracked position CLOSED and otherwise as it was when the
\* exposure is zero, with side and quantity taken from the sign and the
\* magnitude of a non-zero exposure and the avg_entry_price it had when the
\* ticker was tracked, and a new position with avg_entry_price 50 when it was
\* not; every tracked ticker the API does not list is CLOSED; no other ticker
\* becomes tracked. A sync_positions whose get_positions fails leaves the
\* tracker as it was and raises.
C39_SyncFollowsApi ==
    [][ /\ SyncPositions =>
              /\ DOMAIN pt'.positions =
                    DOMAIN pt.positions
                        \cup {k \in DOMAIN rest.positions : rest.positions[k] # 0}
              /\ \A k \in DOMAIN pt'.positions :
                    LET new == pt'.positions[k] IN
                    IF k \notin DOMAIN rest.positions \/ rest.positions[k] = 0
                    THEN new = [pt.positions[k] EXCEPT !.status = "closed"]
                    ELSE /\ new.side = IF rest.positions[k] > 0 THEN "yes" ELSE "no"
                         /\ new.quantity = Abs(rest.positions[k])
                         /\ new.avg_entry_price =
                               IF k \in DOMAIN pt.positions
                               THEN pt.positions[k].avg_entry_price ELSE 50
        /\ SyncPositionsFails => pt' = pt /\ hist'.returned = "raised"
      ]_vars

\* two YES contracts bought at 45 and 50 were turned by a sync into the one NO
\* contract the exchange reports, at the average of 47 they had (the unrealized
\* PnL is still the one of the two YES contracts), and a later sync failed
C39_Witness ==
    /\ hist.returned = "raised"
    /\ \E k \in DOMAIN pt.positions \cap DOMAIN rest.positions :
          /\ rest.positions[k] = -1
          /\ pt.positions[k].side = "no"
          /\ pt.positions[k].quantity = 1
          /\ pt.positions[k].avg_entry_price = 47
          /\ pt.positions[k].unrealized_pnl = -4

\* C40: in every reachable state get_daily_pnl returns the sum of the PnL that
\* the reductions recorded since the last UTC midnight realized (0 when none
\* was recorded since); its lazy reset changes nothing on a day the accumulator
\* was already used, and it never touches a position.
C40_DailyPnlIsTodaysRealized ==
    LET read == daily_reset(pt, clock.day)
    IN  /\ read.daily_pnl =
              IF hist.realized.day = clock.day THEN hist.realized.sum ELSE 0
        /\ pt.daily_pnl_reset = clock.day => read = pt
        /\ read.positions = pt.positions

\* a position realized 5 yesterday and lost 2 today: its realized_pnl is 3 and
\* the accumulator, reset by today's reduction, holds -2
C40_Witness ==
    /\ clock.day = 1
    /\ pt.daily_pnl_reset = 1
    /\ pt.daily_pnl = -2
    /\ hist.realized = [day |-> 1, sum |-> -2]
    /\ \E k \in DOMAIN pt.positions : pt.positions[k].realized_pnl = 3

====
